---- MODULE Spec2Model ----
(***************************************************************************)
(* State-machine model of the WebGL batching renderer StageGL              *)
(* (src/src/utils/EaselJS/display/StageGL.js) together with the parts of   *)
(* BitmapCache it drives.  One renderer instance is modelled.  A frame     *)
(* (draw) is traversed child by child: the scene graph is supplied lazily, *)
(* each visited child being drawn from a small set of node descriptions,   *)
(* which is the same as choosing the tree before the frame starts.         *)
(*                                                                         *)
(* Alpha values are fixed-point numbers with AlphaOne standing for 1.0.    *)
(***************************************************************************)
EXTENDS Integers, Sequences, FiniteSets, TLC

(***************************************************************************)
(* Bounds of the model.                                                    *)
(***************************************************************************)
\* number of texture units the device reports (gl.MAX_TEXTURE_IMAGE_UNITS)
SlotCount == 2
\* scaled stand-ins for the clamp limits of options.batchSize, in cards
MinBatchCards == 2
MaxBatchCards == 3
\* image sources known to the application: Image elements, then canvases
NumImages == 3
NumCanvases == 1
\* GPU texture objects that may ever be created
MaxTextures == 7
\* frames drawn
MaxDraws == 2
\* nodes visited in one frame, and nesting depth of containers
MaxNodes == 3
MaxDepth == 2
\* nodes visited in one frame of plain bitmaps (SpecBatch)
MaxBatchNodes == 7
\* WebGL caches defined by the application
MaxCaches == 1
\* nodes visited in each frame of a run of several frames (SpecFrames)
MaxFrameNodes == 2
\* frames drawn in a run long enough for the automatic purge (SpecAutoPurge)
MaxAutoDraws == 15
\* nodes visited in the frame of a container of bitmaps (SpecScene)
MaxSceneNodes == 4
\* updates of one cache
MaxUpdates == 3
\* the greatest MAX_TEXTURE_IMAGE_UNITS a host reports
MaxSamplers == 8
\* frames drawn while sources load (SpecUpload)
MaxUploadDraws == 3
\* the batch number up to which a cache is followed once textures fail
MaxLostBatches == 6
\* the number of slots protectTextureSlot is followed on
MaxProtects == 2
\* the number of frames between which the viewport is resized
MaxViewDraws == 2
\* the greatest width and height of an image whose texture coordinates are followed
MaxImageDim == 3
\* the number of items given to the load queue
MaxItems == 3
\* the greatest value given to setMaxConnections
MaxConnections == 2
\* the number of items whose loader throws from load()
MaxThrowers == 1

(***************************************************************************)
(* Program constants.                                                      *)
(***************************************************************************)
INDICIES_PER_CARD == 6
\* groupCount of the "micro" attribute array, in vertices
MicroGroupCount == 5
\* 1.0 and the 0.0035 cut-off in fixed point
AlphaOne == 10000
AlphaEpsilon == 35
\* the least period the autoPurge setter accepts
AutoPurgeFloor == 10

\* JavaScript undefined / null for numeric fields, and the "no texture" handle
Undef == 0 - 2
NoTexture == 0 - 3
\* the stage itself used as a render target (its _frameBuffer is null: the canvas)
StageSelf == 0 - 4

\* <<width, height>> of the stage's canvas, of the drawing area of a cache,
\* and of the values of the page's globals w and h where it defines them
CanvasSize == <<2, 2>>
CacheSize == <<4, 4>>
GlobalSize == <<5, 5>>

\* a local of the code: F applied to the value v
Let(v, F(_)) == F(v)

Max(a, b) == IF a > b THEN a ELSE b
Min(a, b) == IF a < b THEN a ELSE b

RECURSIVE SumSeq(_)
SumSeq(s) == IF s = <<>> THEN 0 ELSE Head(s) + SumSeq(Tail(s))

SeqRange(s) == { s[i] : i \in 1..Len(s) }

(***************************************************************************)
(* shaders.blendSources: the table of composite operations.  "multiply"    *)
(* carries its own shader and is therefore rendered immediately; "lighter" *)
(* only changes the blend function; any other name is unknown.             *)
(***************************************************************************)
blendSources == {"source-over", "lighter", "multiply"}
blendShader == {"multiply"}

VARIABLES
    phase,      \* "idle" between operations, "draw" inside a traversal, "ctorThrew"
    stage,      \* the fields of the StageGL instance
    textures,   \* GPU texture objects, by creation number; 0 is the blank base texture
    images,     \* image / canvas sources, by id
    arrays,     \* contents of the attribute arrays of each attribute config
    stack,      \* activation records of _appendToBatch (and of the draw that started them)
    evts,       \* what the latest operation did: appends, flushes, covers, lookups
    frame,      \* per-frame tallies
    caches,     \* render textures that are the cacheCanvas of some BitmapCache
    manager,    \* one BitmapCache instance, followed through its life
    queue       \* one LoadQueue instance

vars == <<phase, stage, textures, images, arrays, stack, evts, frame, caches, manager, queue>>

(***************************************************************************)
(* Sources.  Images 1 and 2 are two Image elements with the same src, the  *)
(* other Image elements have a src of their own; canvases follow.          *)
(***************************************************************************)
ImageIds == 1..(NumImages + NumCanvases)
IsCanvasElement(i) == i > NumImages
SrcOf(i) == IF i <= 2 THEN 1 ELSE i - 1
\* key of a canvas in _textureIDs: "canvas_" + n
CanvasKey(n) == 1000 + n
\* a render texture standing in for an image (the cacheCanvas of a WebGL cache)
Surface(t) == 100 + t
IsSurface(i) == i >= 100
TextureOf(i) == i - 100
StoreIDOf(w, i) == IF IsSurface(i) THEN w.tx[TextureOf(i)].storeID ELSE w.im[i].storeID

SlotTex(w, i) == w.st.batchTextures[i + 1]
Dict(w, id) ==
    IF id >= 0 /\ id < Len(w.st.textureDictionary)
    THEN w.st.textureDictionary[id + 1] ELSE NoTexture

EmptyCard == [draw |-> 0, node |-> 0, tex |-> NoTexture, idx |-> 0, stored |-> 0,
              mode |-> "source-over", cfg |-> "none", blend |-> "source-over"]
\* what a draw call reads past the end of a buffer
OutsideCard == [draw |-> 0, node |-> 0, tex |-> NoTexture, idx |-> 0, stored |-> 0 - 1,
                mode |-> "source-over", cfg |-> "none", blend |-> "source-over"]

\* capacity, in vertices, of the arrays of an attribute config (_createBuffers)
CapacityOf(w, cfg) ==
    IF cfg = "default" THEN w.st.maxBatchVertexCount ELSE MicroGroupCount

Emit(w, e) == [w EXCEPT !.ev = Append(@, e)]

(***************************************************************************)
(* _renderBatch: draws the written vertices from the ACTIVE config with    *)
(* the active shader, then resets the cursor and bumps the batch id.       *)
(***************************************************************************)
ReadCards(w, cfg, count) ==
    [k \in 1..(count \div INDICIES_PER_CARD) |->
        IF k <= Len(w.ar[cfg]) THEN w.ar[cfg][k] ELSE OutsideCard]

\* a flush that never finds the batch empty
BatchEmpty_never(w) == FALSE
\* line 2253
BatchEmpty(w) == w.st.batchVertexCount <= 0

_renderBatch(w, reason) ==
    IF w.threw \/ BatchEmpty(w) THEN w
    ELSE LET e == [t |-> "flush", reason |-> reason,
                   count |-> w.st.batchVertexCount,
                   cfg |-> w.st.activeConfig,
                   cards |-> ReadCards(w, w.st.activeConfig, w.st.batchVertexCount),
                   pending |-> w.fr.pending,
                   slots |-> w.st.batchTextures,
                   shader |-> w.st.activeShader,
                   blend |-> w.st.blendState,
                   batch |-> w.st.batchID]
         IN [Emit(w, e) EXCEPT !.st.renderPerDraw = @ + 1,
                               !.st.batchVertexCount = 0,
                               !.st.batchID = @ + 1,
                               !.fr.pending = <<>>,
                               !.fr.flushes = @ + 1,
                               !.fr.flog = Append(@, [count |-> e.count, shader |-> e.shader,
                                                      blend |-> e.blend, reason |-> reason]),
                               !.fr.overflows = @ + (IF reason = "textureOverflow" THEN 1 ELSE 0),
                               !.fr.verts = @ + w.st.batchVertexCount]

(***************************************************************************)
(* _renderCover: one full-surface card with the active shader.             *)
(***************************************************************************)
_renderCover(w, reason) ==
    IF w.threw THEN w
    ELSE [Emit(w, [t |-> "cover", reason |-> reason, shader |-> w.st.activeShader,
                   blend |-> w.st.blendState, out |-> w.st.batchTextureOutput,
                   dst |-> w.st.batchTextureConcat, batch |-> w.st.batchID])
            EXCEPT !.st.renderPerDraw = @ + 1, !.st.batchID = @ + 1]

(***************************************************************************)
(* _updateRenderMode                                                       *)
(***************************************************************************)
ShaderOfMode(mode) == IF mode \in blendShader THEN mode ELSE "source-over"

_updateRenderMode(w, mode) ==
    Let(IF mode = "none" \/ mode \notin blendSources THEN "source-over" ELSE mode,
        LAMBDA newMode :
    IF w.threw \/ w.st.renderMode = newMode THEN w
    ELSE Let([w EXCEPT !.st.builtShaders = @ \cup {newMode}], LAMBDA w1 :
         IF newMode \in blendShader /\ w1.st.directDraw THEN w1
         ELSE Let(_renderBatch(IF newMode \in blendShader
                               THEN [w1 EXCEPT !.st.activeConfig = "micro"] ELSE w1,
                               "shaderSwap"), LAMBDA w3 :
              [w3 EXCEPT !.st.renderMode = newMode,
                         !.st.immediateRender = newMode \in blendShader,
                         !.st.blendState = newMode])))

(***************************************************************************)
(* Texture objects.  gl.createTexture hands out the next creation number;  *)
(* `over` records that the model's supply of texture objects ran out.      *)
(* When the host's createTexture returns null (createFails), getBaseTexture*)
(* hands the null to resizeTexture, which reads its width: a TypeError.    *)
(***************************************************************************)
NewTexture ==
    [alive |-> TRUE, storeID |-> Undef, hasData |-> FALSE, imageData |-> <<>>,
     activeIndex |-> Undef, batchID |-> Undef, drawID |-> Undef, frameBuffer |-> FALSE,
     pixels |-> 0, size |-> <<1, 1>>, storage |-> <<1, 1>>]

\* getBaseTexture; the record's `made` field is the handle returned
getBaseTexture(w) ==
    IF w.threw THEN w
    ELSE IF w.st.createFails
    THEN [w EXCEPT !.threw = TRUE, !.made = NoTexture]
    ELSE IF w.st.texCount > MaxTextures
    THEN [w EXCEPT !.over = TRUE, !.made = NoTexture]
    ELSE [w EXCEPT !.tx[w.st.texCount] = NewTexture,
                   !.st.texCount = @ + 1,
                   !.made = w.st.texCount]

\* a resizeTexture that never touches the texture
resizeTexture_never(w, t, size) == w
\* resizeTexture, lines 1050-1068: size is the recorded <<width, height>>,
\* storage the dimensions of the last texImage2D; the stage left in a buffer
\* field has no width of the kind and is no texture, binding it is a TypeError
resizeTexture(w, t, size) ==
    IF w.threw THEN w
    ELSE IF t = StageSelf THEN [w EXCEPT !.threw = TRUE]
    ELSE Emit(IF w.tx[t].size = size THEN w
              ELSE [w EXCEPT !.tx[t].size = size, !.tx[t].storage = size],
              [t |-> "resize", tex |-> t, from |-> w.tx[t].size, to |-> size,
               before |-> w.tx[t].storage,
               after |-> IF w.tx[t].size = size THEN w.tx[t].storage ELSE size])

\* _getSafeTexture: a failed creation is replaced by the base texture of slot 0
_getSafeTexture(w) ==
    Let(getBaseTexture(w), LAMBDA w1 :
        IF w1.threw THEN w1
        ELSE IF w1.made = NoTexture
        THEN [Emit(w1, [t |-> "log"]) EXCEPT !.made = w.st.baseTextures[1]]
        ELSE w1)

(***************************************************************************)
(* _updateTextureImageData: uploads the pixels of a ready source.          *)
(***************************************************************************)
\* an upload step that lets the exception of texImage2D out
Caught_never(w, i) == [w EXCEPT !.threw = w.im[i].tainted]
\* lines 1642-1655: the try block around texImage2D
Caught(w, i) == w

\* pixels: the source whose pixels the texture holds, 0 while it is blank
_updateTextureImageData(w, i) ==
    IF w.threw THEN w
    ELSE IF ~ (w.im[i].ready \/ w.im[i].isCanvas)
    THEN Emit(w, [t |-> "poll", img |-> i, flag |-> w.im[i].invalid])
    ELSE Let(Dict(w, w.im[i].storeID), LAMBDA t :
         IF t = NoTexture THEN [w EXCEPT !.threw = TRUE]
         ELSE Let(Caught(w, i), LAMBDA w1 :
              IF w1.threw THEN w1
              ELSE Emit([w1 EXCEPT !.im[i].invalid = IF @ = "undef" THEN @ ELSE "no",
                                   !.tx[t].pixels = IF w.im[i].tainted THEN @ ELSE i],
                        [t |-> "upload", img |-> i, tex |-> t, flag |-> w.im[i].invalid,
                         caught |-> w.im[i].tainted])))

\* the test of lines 1704 and 1716 without the flag
NeedsUpload_unflagged(w, t) == w.tx[t].hasData /\ Len(w.tx[t].imageData) > 0
NeedsUpload(w, t) ==
    /\ w.tx[t].hasData
    /\ Len(w.tx[t].imageData) > 0
    /\ LET i == w.tx[t].imageData[1]
       IN \/ (w.im[i].invalid = "undef" /\ w.im[i].isCanvas)
          \/ w.im[i].invalid = "yes"

(***************************************************************************)
(* _insertTextureInBatch: finds the texture a slot, flushing if every slot *)
(* is taken by the current batch.                                          *)
(***************************************************************************)
\* the test of the do-while loop without the batch id
SlotFree_any(w, look) == ~ w.st.slotBlacklist[look + 1]
SlotFree(w, look) ==
    /\ w.tx[SlotTex(w, look)].batchID # w.st.batchID
    /\ ~ w.st.slotBlacklist[look + 1]

\* a scan that always begins at slot 0
ScanOrder_fromZero(w, start) == [k \in 1..w.st.batchTextureCount |-> k - 1]
\* the slots in the order the do-while loop inspects them
ScanOrder(w, start) ==
    [k \in 1..w.st.batchTextureCount |-> (start + k - 1) % w.st.batchTextureCount]

\* a search that takes the start slot whatever it holds
FirstFree_start(w, start) == start
FirstFree(w, start) ==
    Let(ScanOrder(w, start), LAMBDA order :
    Let({ k \in 1..Len(order) : SlotFree(w, order[k]) }, LAMBDA hits :
        IF hits = {} THEN 0 - 1
        ELSE order[CHOOSE k \in hits : \A j \in hits : k <= j]))

\* a texture that is never found in its slot
InSlot_never(w, t) == FALSE
\* lines 1680, 1750: the slot the texture remembers still holds it
InSlot(w, t) ==
    /\ w.tx[t].activeIndex # Undef
    /\ SlotTex(w, w.tx[t].activeIndex) = t

_insertTextureInBatch(w, t) ==
    IF w.threw THEN w
    ELSE IF ~ InSlot(w, t)
    THEN Let((w.st.lastTextureInsert + 1) % w.st.batchTextureCount, LAMBDA start :
         Let(FirstFree(w, start), LAMBDA look :
         Let(IF look = 0 - 1 THEN start ELSE look, LAMBDA found :
         Let(IF look = 0 - 1 THEN _renderBatch(w, "textureOverflow") ELSE w, LAMBDA w1 :
         Let([w1 EXCEPT !.st.batchTextures[found + 1] = t,
                        !.tx[t].activeIndex = found,
                        !.st.lastTextureInsert = found], LAMBDA w2 :
         Let(IF NeedsUpload(w2, t)
             THEN _updateTextureImageData(w2, w2.tx[t].imageData[1]) ELSE w2, LAMBDA w3 :
             [Emit(w3, [t |-> "insert", tex |-> t,
                        last |-> w.st.lastTextureInsert,
                        occBatch |-> [k \in 1..w.st.batchTextureCount |->
                                        w.tx[w.st.batchTextures[k]].batchID],
                        black |-> w.st.slotBlacklist,
                        batch |-> w.st.batchID,
                        found |-> found])
                EXCEPT !.tx[t].drawID = w3.st.drawID,
                       !.tx[t].batchID = w3.st.batchID]))))))
    ELSE Let(IF w.tx[t].drawID # w.st.drawID /\ NeedsUpload(w, t)
             THEN _updateTextureImageData(w, w.tx[t].imageData[1]) ELSE w, LAMBDA w4 :
             [w4 EXCEPT !.tx[t].drawID = w4.st.drawID, !.tx[t].batchID = w4.st.batchID])

(***************************************************************************)
(* _loadTextureImage: registers a source seen for the first time.          *)
(***************************************************************************)
\* a key per Image element instead of per src
KeyOf_perElement(w, i) ==
    IF IsCanvasElement(i) THEN CanvasKey(w.st.lastTrackedCanvas + 1) ELSE i
KeyOf(w, i) == IF IsCanvasElement(i) THEN CanvasKey(w.st.lastTrackedCanvas + 1) ELSE SrcOf(i)

StoreIdOfKey(w, key) ==
    IF \E p \in w.st.textureIDs : p[1] = key
    THEN (CHOOSE p \in w.st.textureIDs : p[1] = key)[2] ELSE Undef

_loadTextureImage(w, i) ==
    IF w.threw THEN w
    ELSE IF IsSurface(i) THEN [w EXCEPT !.made = NoTexture]
    ELSE
    Let(KeyOf(w, i), LAMBDA key :
    Let(IF IsCanvasElement(i)
        THEN [w EXCEPT !.im[i].isCanvas = TRUE, !.st.lastTrackedCanvas = @ + 1]
        ELSE w, LAMBDA w0 :
    Let(StoreIdOfKey(w0, key), LAMBDA known :
    Let(IF known = Undef THEN Len(w0.st.textureDictionary) ELSE known, LAMBDA storeID :
    Let(IF known = Undef
        THEN Let(_getSafeTexture(w0), LAMBDA wa :
                 IF wa.threw THEN wa ELSE
                 [wa EXCEPT !.st.textureIDs = @ \cup {<<key, storeID>>},
                            !.im[i].storeID = storeID,
                            !.im[i].invalid = "yes",
                            !.st.textureDictionary = Append(@, wa.made)])
        ELSE [w0 EXCEPT !.im[i].storeID = storeID,
                        !.made = Dict(w0, storeID)], LAMBDA w1 :
    Let(w1.made, LAMBDA t :
    IF w1.threw THEN w1 ELSE
    Let(IF w1.tx[t].storeID # 0 - 1
        THEN [w1 EXCEPT !.tx[t].storeID = storeID,
                        !.tx[t].hasData = TRUE,
                        !.tx[t].imageData = Append(@, i)]
        ELSE w1, LAMBDA w2 :
        [_insertTextureInBatch(Emit(w2, [t |-> "load", img |-> i, tex |-> t]), t)
            EXCEPT !.made = t])))))))

(***************************************************************************)
(* _killTextureObject                                                      *)
(***************************************************************************)
_killTextureObject(w, t) ==
    IF t = NoTexture THEN w
    ELSE
    Let(w.tx[t].storeID, LAMBDA sid :
    Let(IF sid # Undef /\ sid >= 0
        THEN [w EXCEPT
                !.st.textureDictionary[sid + 1] = NoTexture,
                !.st.textureIDs = { p \in @ : p[2] # sid },
                !.im = [i \in DOMAIN @ |->
                          IF i \in SeqRange(w.tx[t].imageData)
                          THEN [@[i] EXCEPT !.storeID = Undef] ELSE @[i]],
                !.tx[t].imageData = <<>>,
                !.tx[t].hasData = FALSE,
                !.tx[t].storeID = Undef]
        ELSE w, LAMBDA w1 :
    Let(IF InSlot(w1, t)
        THEN [w1 EXCEPT !.st.batchTextures[w.tx[t].activeIndex + 1] =
                            w.st.baseTextures[w.tx[t].activeIndex + 1]]
        ELSE w1, LAMBDA w2 :
        [w2 EXCEPT !.tx[t].frameBuffer = FALSE, !.tx[t].alive = FALSE])))

(***************************************************************************)
(* getRenderBufferTexture.  Its call getBaseTexture(w, h) names two        *)
(* identifiers that the function does not declare; they resolve only if    *)
(* the host page defines globals of those names (hostWH), otherwise the    *)
(* call throws a ReferenceError.                                           *)
(***************************************************************************)
getRenderBufferTexture(w, size) ==
    IF w.threw THEN w
    ELSE IF ~ w.st.hostWH
    THEN [Emit(w, [t |-> "renderBuffer", size |-> size, made |-> NoTexture, threw |-> TRUE])
            EXCEPT !.threw = TRUE, !.made = NoTexture]
    ELSE Let(getBaseTexture(w), LAMBDA w1 :
         Let(w1.made, LAMBDA t :
             IF t = NoTexture THEN w1
             ELSE Emit([w1 EXCEPT !.tx[t].frameBuffer = TRUE,
                                  !.tx[t].storage = GlobalSize,
                                  !.tx[t].size = size,
                                  !.tx[t].storeID = Len(w1.st.textureDictionary),
                                  !.st.textureDictionary = Append(@, t)],
                       [t |-> "renderBuffer", size |-> size, made |-> t,
                        threw |-> FALSE])))

(***************************************************************************)
(* _drawCover: composites dst into out, through a filter or through the    *)
(* shader of the current render mode; the shader it selects stays active.  *)
(***************************************************************************)
_drawCover(w, reason, filter) ==
    IF w.threw THEN w
    ELSE _renderCover(
            [w EXCEPT !.st.activeShader =
                IF filter # "none" THEN filter ELSE ShaderOfMode(w.st.renderMode)],
            reason)

(***************************************************************************)
(* _immediateBatchRender                                                   *)
(***************************************************************************)
_immediateBatchRender(w) ==
    Let(IF w.st.batchTextureConcat = NoTexture
        THEN Let(getRenderBufferTexture(w, w.st.viewport), LAMBDA wa :
                 [wa EXCEPT !.st.batchTextureConcat = wa.made])
        ELSE resizeTexture(w, w.st.batchTextureConcat, w.st.viewport), LAMBDA w1 :
    Let(IF w1.threw THEN w1
        ELSE IF w1.st.batchTextureTemp = NoTexture
        THEN Let(getRenderBufferTexture(w1, w1.st.viewport), LAMBDA wb :
                 [wb EXCEPT !.st.batchTextureTemp = wb.made])
        ELSE resizeTexture(w1, w1.st.batchTextureTemp, w1.st.viewport), LAMBDA w2 :
        IF w2.threw THEN w2
        ELSE _drawCover(
                _renderBatch([w2 EXCEPT !.st.batchTextureOutput = w2.st.batchTextureConcat,
                                        !.st.batchTextureConcat = w2.st.batchTextureOutput,
                                        !.st.activeShader = "main"],
                             "immediatePrep"),
                "immediateResults", "none")))

(***************************************************************************)
(* The body of the child loop of _appendToBatch for a child that is drawn  *)
(* as a card (a bitmap, a sprite, any node shown from its cache) or        *)
(* skipped.  f is the activation record of the container, c the child,     *)
(* useCache the cache surface used for it (0: none).                       *)
(***************************************************************************)
\* the image a child draws from; 0 when the loop moves on without drawing
ItemImage(c, useCache) ==
    IF c.kind = "bitmap" \/ useCache # 0
    THEN (IF useCache = 0 THEN c.src ELSE useCache)
    ELSE IF c.kind = "sprite" THEN c.src
    ELSE 0

\* writes one card at the cursor of the active config
WriteCard(w, n, t, op) ==
    Let(w.st.activeConfig, LAMBDA cfg :
    Let(w.st.batchVertexCount, LAMBDA cur :
    Let((cur \div INDICIES_PER_CARD) + 1, LAMBDA pos :
    Let([draw |-> w.st.drawID, node |-> n, tex |-> t,
         idx |-> w.tx[t].activeIndex,
         stored |-> Max(0, Min(INDICIES_PER_CARD, CapacityOf(w, cfg) - cur)),
         mode |-> w.st.renderMode, cfg |-> cfg, blend |-> w.st.blendState], LAMBDA card :
        [Emit(IF pos <= Len(w.ar[cfg]) THEN [w EXCEPT !.ar[cfg][pos] = card] ELSE w,
              [t |-> "append", cfg |-> cfg, cursor |-> cur, node |-> n, tex |-> t,
               idx |-> card.idx, mode |-> w.st.renderMode])
            EXCEPT !.st.batchVertexCount = @ + INDICIES_PER_CARD,
                   !.fr.cards = @ + 1,
                   !.fr.texs = @ \cup {t},
                   !.fr.ops = Append(@, [op |-> op, mode |-> w.st.renderMode, tex |-> t]),
                   !.fr.pending = Append(@, [card EXCEPT !.stored = INDICIES_PER_CARD])]))))

\* lines 2052-2071: resolve the texture of an image source
ResolveTexture(w, img) ==
    IF StoreIDOf(w, img) = Undef
    THEN Let(_loadTextureImage(Emit(w, [t |-> "lookup", img |-> img, fresh |-> TRUE]),
                               img), LAMBDA w1 :
             IF w1.made = NoTexture THEN [w1 EXCEPT !.threw = TRUE] ELSE w1)
    ELSE Let(Dict(w, StoreIDOf(w, img)), LAMBDA t :
         Let(Emit(w, [t |-> "lookup", img |-> img, fresh |-> FALSE]), LAMBDA w1 :
             IF t = NoTexture THEN [w1 EXCEPT !.made = NoTexture]
             ELSE [(IF w1.tx[t].batchID # w1.st.batchID
                    THEN _insertTextureInBatch(w1, t) ELSE w1) EXCEPT !.made = t]))

\* line 2015 with >= in place of >
BatchFull_atCapacity(w) ==
    w.st.batchVertexCount + INDICIES_PER_CARD >= w.st.maxBatchVertexCount
\* line 2015: the next card would not fit
BatchFull(w) ==
    w.st.batchVertexCount + INDICIES_PER_CARD > w.st.maxBatchVertexCount

AppendItem(w, c, n, useCache) ==
    Let(w.st.renderMode, LAMBDA containerRenderMode :
    Let(IF c.op # "none"
        THEN _updateRenderMode([w EXCEPT !.fr.blended = TRUE], c.op) ELSE w, LAMBDA w1 :
    Let(IF BatchFull(w1) THEN _renderBatch(w1, "vertexOverflow") ELSE w1, LAMBDA w2 :
    Let(ItemImage(c, useCache), LAMBDA img :
        IF img = 0 THEN w2
        ELSE Let(ResolveTexture(w2, img), LAMBDA w3 :
             Let(w3.made, LAMBDA t :
                 IF t = NoTexture \/ w3.threw THEN w3
                 ELSE Let(WriteCard(
                             IF IsSurface(img)
                             THEN [w3 EXCEPT !.tx[TextureOf(img)].drawID = w3.st.drawID]
                             ELSE [w3 EXCEPT !.im[img].drawID = w3.st.drawID],
                             n, t, c.op), LAMBDA w4 :
                      Let(IF w4.st.immediateRender
                          THEN _immediateBatchRender(
                                  [w4 EXCEPT !.st.activeConfig = "default"])
                          ELSE w4, LAMBDA w5 :
                          IF w5.st.renderMode # containerRenderMode
                          THEN _updateRenderMode(w5, containerRenderMode)
                          ELSE w5))))))))

(***************************************************************************)
(* Node descriptions a traversal may meet.  Attributes that cannot matter  *)
(* for a kind of node are fixed, to keep the choice small.                 *)
(***************************************************************************)
Alphas == {AlphaOne, AlphaOne \div 20}
Ops == {"none", "lighter", "multiply"}
Canvases == { i \in ImageIds : IsCanvasElement(i) }
PlainImages == { i \in ImageIds : ~ IsCanvasElement(i) }

Node(kind, visible, alpha, op, src, cache, filters) ==
    [kind |-> kind, visible |-> visible, alpha |-> alpha, op |-> op,
     src |-> src, cache |-> cache, filters |-> filters]

Bitmaps == { Node("bitmap", TRUE, AlphaOne, o, i, 0, FALSE) :
                o \in Ops, i \in PlainImages \cup {0} }
\* a sprite whose current frame is missing, a node that renders nothing in WebGL
Unrenderable == { Node("sprite", TRUE, AlphaOne, o, 0, 0, FALSE) : o \in Ops }
                    \cup { Node("dom", TRUE, AlphaOne, "lighter", 0, 0, FALSE) }
Invisible == { Node(k, FALSE, AlphaOne, "none", 1, 0, FALSE) : k \in {"bitmap", "container"} }
Faint == { Node(k, TRUE, AlphaOne \div 20, "none", 1, 0, FALSE) : k \in {"bitmap", "container"} }
Containers == { Node("container", TRUE, AlphaOne, o, 0, 0, FALSE) : o \in Ops }
Cached == { Node(k, TRUE, AlphaOne, o, 1, cv, FALSE) :
                k \in {"bitmap", "container"}, o \in {"none", "lighter"}, cv \in Canvases }

Nodes == Bitmaps \cup Unrenderable \cup Invisible \cup Faint \cup Containers \cup Cached

(***************************************************************************)
(* Packing the variables into one record for the operators above, and back.*)
(***************************************************************************)
W0 == [st |-> stage, tx |-> textures, im |-> images, ar |-> arrays, ev |-> <<>>,
       fr |-> frame, ca |-> caches, mg |-> manager,
       threw |-> FALSE, over |-> FALSE, made |-> NoTexture]

Commit(w) ==
    /\ ~ w.over
    /\ stage' = w.st
    /\ textures' = w.tx
    /\ images' = w.im
    /\ arrays' = w.ar
    /\ evts' = w.ev
    /\ frame' = w.fr
    /\ caches' = w.ca
    /\ manager' = w.mg
    /\ queue' = queue

MulAlpha(a, b) == (a * b) \div AlphaOne

(***************************************************************************)
(* Construction: field initialisers, then _initializeWebGL (_createBuffers,*)
(* _initMaterials, _updateRenderMode("source-over"), and with directDraw   *)
(* off the output render buffer).                                          *)
(***************************************************************************)
BatchCards(batchSize) == Max(Min(batchSize, MaxBatchCards), MinBatchCards)

NewStage(directDraw, hostWH, batchSize) ==
    [directDraw |-> directDraw, hostWH |-> hostWH,
     maxBatchVertexCount |-> INDICIES_PER_CARD * BatchCards(batchSize),
     batchVertexCount |-> 0, batchID |-> 0, drawID |-> 0, renderPerDraw |-> 0,
     renderMode |-> "source-over", blendState |-> "source-over",
     immediateRender |-> FALSE, activeConfig |-> "default", activeShader |-> "main",
     builtShaders |-> {"source-over"},
     batchTextureCount |-> SlotCount, lastTextureInsert |-> 0 - 1,
     batchTextures |-> [k \in 1..SlotCount |-> 0],
     baseTextures |-> [k \in 1..SlotCount |-> 0],
     slotBlacklist |-> [k \in 1..SlotCount |-> FALSE],
     textureDictionary |-> <<>>, textureIDs |-> {}, lastTrackedCanvas |-> 0 - 1,
     texCount |-> 1,
     batchTextureOutput |-> StageSelf, batchTextureConcat |-> NoTexture,
     batchTextureTemp |-> NoTexture,
     bufferTextureOutput |-> NoTexture, bufferTextureConcat |-> NoTexture,
     bufferTextureTemp |-> NoTexture,
     autoPurge |-> 1200, isCacheControlled |-> FALSE,
     createFails |-> FALSE,
     class |-> "StageGL", webGLContext |-> "gl", maxTextureSlots |-> Undef,
     viewport |-> CanvasSize,
     host |-> [context |-> "gl", units |-> SlotCount, limit |-> SlotCount,
               combined |-> SlotCount, autoPurge |-> 1200, globals |-> hostWH]]

\* a canvas made by createCanvas() for a cache
OwnCanvas == 50

\* the fields of a BitmapCache after construction; content counts the draws
\* into the cache surface
NewManager ==
    [target |-> <<>>, filters |-> <<>>, useGL |-> "none", stageGL |-> FALSE,
     cacheCanvas |-> 0, cacheID |-> 0, cacheDataURLID |-> 0, cacheDataURL |-> 0,
     filterCount |-> 0, bufferTextureOutput |-> NoTexture,
     bufferTextureConcat |-> NoTexture, bufferTextureTemp |-> NoTexture,
     content |-> 0]

\* ready: image.complete || image.naturalWidth; tainted: texImage2D refuses
\* the pixels (a cross-origin source) and throws
NewImage == [storeID |-> Undef, drawID |-> Undef, invalid |-> "undef", isCanvas |-> FALSE,
             ready |-> TRUE, tainted |-> FALSE]

NewFrame == [nodes |-> 0, flushes |-> 0, verts |-> 0, cards |-> 0, pending |-> <<>>,
             texs |-> {}, blended |-> FALSE, ops |-> <<>>, flog |-> <<>>,
             ignoreCache |-> FALSE, overflows |-> 0, purged |-> Undef, inside |-> 0]

Constructed(directDraw, hostWH, batchSize) ==
    LET st0 == NewStage(directDraw, hostWH, batchSize)
        w0 == [st |-> st0,
               tx |-> [k \in 0..MaxTextures |->
                         IF k = 0 THEN [NewTexture EXCEPT !.storeID = 0 - 1]
                         ELSE [NewTexture EXCEPT !.alive = FALSE]],
               im |-> [i \in ImageIds |-> NewImage],
               ar |-> [default |-> [k \in 1..BatchCards(batchSize) |-> EmptyCard],
                       micro |-> <<EmptyCard>>],
               ev |-> <<>>, fr |-> NewFrame, ca |-> {}, mg |-> NewManager,
               threw |-> FALSE, over |-> FALSE, made |-> NoTexture]
    IN IF directDraw THEN w0
       ELSE LET w1 == getRenderBufferTexture(w0, st0.viewport)
            IN [w1 EXCEPT !.st.bufferTextureOutput = w1.made]

(***************************************************************************)
(* LoadQueue: the preload queue.  A loader is named by the number of its   *)
(* item in the order of loadFile calls.                                    *)
(***************************************************************************)

\* what decides the path of an item: "script" is a JavaScript item loaded through
\* a tag (loader.preferXHR false), "ordered" an item with maintainOrder = true
ItemKinds == {"plain", "ordered", "script"}

\* loader.load() either returns with the request under way, or throws
\* (JSONPLoader.load without a callback, or with one that window already has)
LoadOutcomes == {"async", "throws"}

NewLoader(kind, load) ==
    [kind |-> kind, load |-> load, canceled |-> FALSE, started |-> FALSE,
     done |-> "no", result |-> FALSE, counted |-> 0, dispatched |-> 0]

\* the fields the constructor and init() set; closed and base record what has
\* happened, ev what the present operation dispatched
NewQueue ==
    [maxConnections |-> 1, stopOnError |-> FALSE, paused |-> FALSE,
     loadStartWasDispatched |-> FALSE, currentlyLoadingScript |-> FALSE,
     currentLoads |-> <<>>, loadQueue |-> <<>>, loadQueueBackup |-> <<>>,
     numItems |-> 0, numItemsLoaded |-> 0, scriptOrder |-> <<>>, loadedScripts |-> <<>>,
     loaders |-> <<>>, base |-> 0, closed |-> {},
     ev |-> <<>>, threw |-> FALSE]

init(q) ==
    [q EXCEPT !.paused = FALSE, !.loadStartWasDispatched = FALSE,
              !.currentlyLoadingScript = FALSE, !.currentLoads = <<>>,
              !.loadQueue = <<>>, !.loadQueueBackup = <<>>,
              !.numItems = 0, !.numItemsLoaded = 0,
              !.scriptOrder = <<>>, !.loadedScripts = <<>>,
              !.loaders = [k \in DOMAIN @ |-> [@[k] EXCEPT !.result = FALSE]],
              !.base = Len(q.loaders)]

QEmit(q, e) == [q EXCEPT !.ev = Append(@, e)]

\* Array.prototype.indexOf, counted from 1; 0 when absent
indexOf(s, x) ==
    IF \E k \in 1..Len(s) : s[k] = x
    THEN CHOOSE k \in 1..Len(s) : s[k] = x /\ \A j \in 1..(k - 1) : s[j] # x
    ELSE 0

RemoveAt(s, k) == SubSeq(s, 1, k - 1) \o SubSeq(s, k + 1, Len(s))

\* maintainScriptOrder stays true (line 96)
Ordered(q, id) == q.loaders[id].kind \in {"ordered", "script"}

\* the items added since the last init()
LiveItems(q) == (q.base + 1)..Len(q.loaders)

\* loads that were started and have neither finished nor been cancelled
InFlight(q) ==
    { id \in 1..Len(q.loaders) :
        /\ q.loaders[id].started /\ q.loaders[id].done = "no"
        /\ ~ q.loaders[id].canceled /\ q.loaders[id].load = "async" }

AtCapacity_never(q) == FALSE

\* line 1048
AtCapacity(q) == Len(q.currentLoads) >= q.maxConnections

_canStartLoad(q, id) ==
    IF q.loaders[id].kind # "script" THEN TRUE
    ELSE IF q.currentlyLoadingScript THEN FALSE
    ELSE \A i \in 1..(indexOf(q.scriptOrder, id) - 1) : q.loadedScripts[i] # "null"

\* line 1317: a tag script that may start is the script being loaded
MarkScript(q, id) ==
    IF q.loaders[id].kind = "script" THEN [q EXCEPT !.currentlyLoadingScript = TRUE] ELSE q

_loadItem(q, id) ==
    Let([QEmit(q, [t |-> "start", id |-> id, inFlight |-> Len(q.currentLoads),
                   live |-> Cardinality(InFlight(q)), max |-> q.maxConnections,
                   closed |-> id \in q.closed])
            EXCEPT !.currentLoads = Append(@, id), !.loaders[id].started = TRUE],
        LAMBDA q1 : IF q1.loaders[id].load = "throws" THEN [q1 EXCEPT !.threw = TRUE]
                    ELSE q1)

RECURSIVE LoadLoop(_, _)
\* the for loop of _loadNext, i counted from 0
LoadLoop(q, i) ==
    IF q.threw \/ i >= Len(q.loadQueue) THEN q
    ELSE IF AtCapacity(q) THEN q
    ELSE IF ~ _canStartLoad(q, q.loadQueue[i + 1]) THEN LoadLoop(q, i + 1)
    ELSE Let(_loadItem([MarkScript(q, q.loadQueue[i + 1])
                           EXCEPT !.loadQueue = RemoveAt(@, i + 1)],
                       q.loadQueue[i + 1]),
             LAMBDA q1 : LoadLoop(q1, i))

\* lines 1035-1044: the complete event, with what the queue holds when it is sent
SendComplete(q) ==
    IF q.numItems = q.numItemsLoaded
    THEN QEmit(q, [t |-> "complete", items |-> q.numItems, loaded |-> q.numItemsLoaded,
                   finished |-> \A id \in LiveItems(q) : q.loaders[id].done # "no",
                   pending |-> Len(q.loadQueue), inFlight |-> Cardinality(InFlight(q))])
    ELSE q

_loadNext(q) ==
    IF q.paused THEN q
    ELSE Let(SendComplete([q EXCEPT !.loadStartWasDispatched = TRUE]),
             LAMBDA q1 : LoadLoop(q1, 0))

_sendFileComplete(q, id) ==
    IF q.paused THEN q
    ELSE [QEmit(q, [t |-> "fileload", id |-> id, ordered |-> Ordered(q, id),
                    late |-> \E j \in (id + 1)..Len(q.loaders) :
                                Ordered(q, j) /\ q.loaders[j].dispatched > 0])
             EXCEPT !.loaders[id].dispatched = @ + 1]

_processFinishedLoad(q, id) ==
    Let(_sendFileComplete([q EXCEPT !.numItemsLoaded = @ + 1,
                                    !.loaders[id].counted = @ + 1], id),
        LAMBDA q1 : _loadNext(q1))

RECURSIVE CheckLoop(_, _, _)
\* the for loop of _checkScriptLoadOrder, i counted from 1
CheckLoop(q, i, l) ==
    IF q.threw \/ i > l THEN q
    ELSE IF q.loadedScripts[i] = "null" THEN q
    ELSE IF q.loadedScripts[i] = "true" THEN CheckLoop(q, i + 1, l)
    ELSE Let(_processFinishedLoad(q, q.scriptOrder[i]), LAMBDA q1 :
             IF q1.threw THEN q1
             ELSE CheckLoop([q1 EXCEPT !.loadedScripts[i] = "true"], i + 1, l))

_checkScriptLoadOrder(q) == CheckLoop(q, 1, Len(q.loadedScripts))

\* whether _finishOrderedItem returns true
Managed(q, id) == Ordered(q, id) /\ indexOf(q.scriptOrder, id) # 0

_finishOrderedItem(q, id, loadFailed) ==
    IF ~ Ordered(q, id) THEN q
    ELSE Let([q EXCEPT !.currentlyLoadingScript =
                           IF q.loaders[id].kind = "script" THEN FALSE ELSE @],
             LAMBDA q1 :
                 IF indexOf(q1.scriptOrder, id) = 0 THEN q1
                 ELSE Let([q1 EXCEPT !.loadedScripts[indexOf(q1.scriptOrder, id)] =
                                         IF loadFailed THEN "true" ELSE "item"],
                          LAMBDA q2 : _checkScriptLoadOrder(q2)))

_removeLoadItem(q, id) ==
    IF indexOf(q.currentLoads, id) = 0 THEN q
    ELSE [q EXCEPT !.currentLoads = RemoveAt(@, indexOf(q.currentLoads, id))]

_handleFileComplete(q, id) ==
    Let([q EXCEPT !.loaders[id].result = TRUE, !.loaders[id].done = "loaded"],
        LAMBDA q0 :
    Let(_removeLoadItem(q0, id), LAMBDA q1 :
    Let(_finishOrderedItem(q1, id, FALSE), LAMBDA q2 :
        IF q2.threw \/ Managed(q, id) THEN q2
        ELSE _processFinishedLoad(q2, id))))

setPaused(q, value) ==
    IF value THEN [q EXCEPT !.paused = TRUE]
    ELSE Let([q EXCEPT !.paused = FALSE], LAMBDA q1 : _loadNext(q1))

_handleError(q, id) ==
    Let([q EXCEPT !.numItemsLoaded = @ + 1, !.loaders[id].counted = @ + 1,
                  !.loaders[id].done = "failed"], LAMBDA q0 :
    Let(_finishOrderedItem(q0, id, TRUE), LAMBDA q1 :
        IF q1.threw THEN q1
        ELSE Let(QEmit(q1, [t |-> "error", id |-> id]), LAMBDA q2 :
             IF ~ q2.stopOnError
             THEN Let(_removeLoadItem(q2, id), LAMBDA q3 : _loadNext(q3))
             ELSE setPaused(q2, TRUE))))

setMaxConnections(q, value) ==
    Let([q EXCEPT !.maxConnections = value], LAMBDA q1 :
        IF ~ q1.paused /\ Len(q1.loadQueue) > 0 THEN _loadNext(q1) ELSE q1)

_addItem(q, kind, load) ==
    Let(Len(q.loaders) + 1, LAMBDA id :
        [q EXCEPT !.loaders = Append(@, NewLoader(kind, load)),
                  !.loadQueue = Append(@, id),
                  !.loadQueueBackup = Append(@, id),
                  !.numItems = @ + 1,
                  !.scriptOrder = IF kind \in {"ordered", "script"} THEN Append(@, id) ELSE @,
                  !.loadedScripts = IF kind \in {"ordered", "script"}
                                    THEN Append(@, "null") ELSE @])

loadFile(q, kind, load, loadNow) ==
    Let(_addItem(q, kind, load), LAMBDA q1 : setPaused(q1, ~ loadNow))

\* AbstractLoader.cancel: the loader forgets its item and its listeners
cancel(q, id) == [q EXCEPT !.loaders[id].canceled = TRUE]

\* close() writes loadStartWasDispatched and _itemCount, which nothing reads;
\* _loadStartWasDispatched, _numItems, _loadQueue and _paused stay as they are
close(q) ==
    [q EXCEPT !.loaders = [k \in DOMAIN @ |->
                              IF k \in SeqRange(q.currentLoads)
                              THEN [@[k] EXCEPT !.canceled = TRUE] ELSE @[k]],
              !.currentLoads = <<>>,
              !.scriptOrder = <<>>,
              !.loadedScripts = <<>>,
              !.closed = @ \cup SeqRange(q.loadQueue) \cup SeqRange(q.currentLoads)]

\* a backwards search "loader.getItem().id == item" through s: the position of the
\* loader of id, 0 when the search ends without it, and -1 when it first meets a
\* cancelled loader, whose getItem() is null
Hit(q, s, id) ==
    LET canc == { k \in 1..Len(s) : q.loaders[s[k]].canceled }
        same == { k \in 1..Len(s) : s[k] = id /\ ~ q.loaders[s[k]].canceled }
        top(S) == CHOOSE k \in S : \A j \in S : j <= k
    IN IF same = {} /\ canc = {} THEN 0
       ELSE IF same = {} THEN 0 - 1
       ELSE IF canc = {} THEN top(same)
       ELSE IF top(same) > top(canc) THEN top(same) ELSE 0 - 1

\* one of the three searches of remove(): drop and cancel the loader where found
RemoveFrom(q, field, id) ==
    Let(Hit(q, q[field], id), LAMBDA k :
        IF k < 0 THEN [q EXCEPT !.threw = TRUE]
        ELSE IF k = 0 THEN q
        ELSE Let([q EXCEPT ![field] = RemoveAt(@, k)], LAMBDA q1 : cancel(q1, id)))

remove(q, id) ==
    Let(RemoveFrom(q, "loadQueue", id), LAMBDA q1 :
        IF q1.threw THEN q1
        ELSE Let(RemoveFrom(q1, "loadQueueBackup", id), LAMBDA q2 :
             IF q2.threw THEN q2
             ELSE IF q.loaders[id].result
             THEN [q2 EXCEPT !.loaders[id].result = FALSE]
             ELSE Let(RemoveFrom(q2, "currentLoads", id), LAMBDA q3 :
                  IF q3.threw \/ Len(q3.currentLoads) = Len(q2.currentLoads) THEN q3
                  ELSE _loadNext(q3))))

removeAll(q) == Let(close(q), LAMBDA q1 : init(q1))

\* <<options.directDraw, whether the host page defines the globals w and h>>
Hosts == { <<TRUE, FALSE>>, <<FALSE, TRUE>>, <<FALSE, FALSE>> }
GLHosts == { <<TRUE, TRUE>>, <<FALSE, TRUE>>, <<TRUE, FALSE>> }

InitOf(HostSet, Sizes) ==
    \E host \in HostSet, batchSize \in Sizes :
        LET w == Constructed(host[1], host[2], batchSize)
        IN /\ phase = IF w.threw THEN "ctorThrew" ELSE "idle"
           /\ stage = w.st
           /\ textures = w.tx
           /\ images = w.im
           /\ arrays = w.ar
           /\ stack = <<>>
           /\ evts = <<>>
           /\ frame = w.fr
           /\ caches = {}
           /\ manager = w.mg
           /\ queue = NewQueue

Init == InitOf(Hosts, {1, MaxBatchCards + 1})

(***************************************************************************)
(* Activation records.                                                     *)
(***************************************************************************)
Top == stack[Len(stack)]
Pop == SubSeq(stack, 1, Len(stack) - 1)

\* entry of _appendToBatch (lines 1941-1961) for a container c
EnterFrame(w, c, n, concatAlpha, ignoreCache, root) ==
    Let(IF c.op # "none"
        THEN _updateRenderMode([w EXCEPT !.fr.blended = TRUE], c.op) ELSE w, LAMBDA w1 :
        [rec |-> [node |-> n, concatAlpha |-> concatAlpha, ignoreCache |-> ignoreCache,
                  previousRenderMode |-> w.st.renderMode, root |-> root,
                  base |-> w1.st.renderMode, store |-> <<>>],
         w |-> w1])

\* an exception leaves the operation: the traversal is abandoned where it stood
Settle(w, nextStack) ==
    /\ Commit(w)
    /\ IF w.threw THEN phase' = "idle" /\ stack' = <<>>
       ELSE phase' = "draw" /\ stack' = nextStack

VisitEvt(n, c, f, useCache) ==
    [t |-> "visit", node |-> n, c |-> c, concatAlpha |-> f.concatAlpha,
     ignoreCache |-> f.ignoreCache, useCache |-> useCache, base |-> f.base,
     depth |-> Len(stack)]

\* a traversal that never looks at cacheCanvas
UseCache_never(f, c) == 0
\* line 1970: (!ignoreCache && item.cacheCanvas) || false
UseCache(f, c) == IF ~ f.ignoreCache /\ c.cache # 0 THEN c.cache ELSE 0

Skipped(f, c) == ~ (c.visible /\ f.concatAlpha > AlphaEpsilon)

(***************************************************************************)
(* draw(context, ignoreCache) up to the first child of the stage           *)
(* (draw lines 736-762, _drawContent lines 1857-1865).                     *)
(***************************************************************************)
DrawStartOf(limit, StageOps, StageAlphas, Flags) ==
    /\ phase = "idle"
    /\ stage.drawID < limit
    /\ \E ignoreCache \in Flags, alpha \in StageAlphas, op \in StageOps :
        LET w1 == [W0 EXCEPT !.st.renderPerDraw = 0,
                             !.st.batchVertexCount = 0,
                             !.st.drawID = @ + 1,
                             !.st.batchTextureOutput =
                                 IF stage.directDraw THEN StageSelf
                                 ELSE stage.bufferTextureOutput,
                             !.st.batchTextureConcat =
                                 IF stage.directDraw THEN @ ELSE stage.bufferTextureConcat,
                             !.st.batchTextureTemp =
                                 IF stage.directDraw THEN @ ELSE stage.bufferTextureTemp,
                             !.fr = [NewFrame EXCEPT !.ignoreCache = ignoreCache]]
            w2 == _updateRenderMode(w1, "source-over")
            w3 == [w2 EXCEPT !.st.activeShader = "main"]
            e == EnterFrame(w3, Node("container", TRUE, alpha, op, 0, 0, FALSE), 0,
                            alpha, ignoreCache, "draw")
            rec == [e.rec EXCEPT !.store = <<stage.batchTextureOutput,
                                             stage.batchTextureConcat,
                                             stage.batchTextureTemp>>]
        IN Settle(Emit(e.w, [t |-> "draw", ignoreCache |-> ignoreCache]), <<rec>>)

(***************************************************************************)
(* One pass of the child loop (lines 1968-2202).                           *)
(***************************************************************************)
\* line 1972: the child is invisible or the container's alpha is negligible
SkipChildOf(NS, limit) ==
    /\ phase = "draw"
    /\ frame.nodes < limit
    /\ \E c \in NS :
        /\ Skipped(Top, c)
        /\ Settle([Emit(W0, VisitEvt(frame.nodes + 1, c, Top, UseCache(Top, c)))
                     EXCEPT !.fr.nodes = @ + 1], stack)

\* lines 2004-2006: recursion into a container that is not shown from a cache
EnterContainerOf(NS, limit) ==
    /\ phase = "draw"
    /\ frame.nodes < limit
    /\ Len(stack) <= MaxDepth
    /\ \E c \in NS :
        /\ ~ Skipped(Top, c)
        /\ UseCache(Top, c) = 0
        /\ c.kind = "container"
        /\ LET n == frame.nodes + 1
               w1 == [Emit(W0, VisitEvt(n, c, Top, 0)) EXCEPT !.fr.nodes = @ + 1]
               e == EnterFrame(w1, c, n, MulAlpha(c.alpha, Top.concatAlpha), FALSE, "child")
           IN Settle(e.w, Append(stack, [e.rec EXCEPT !.store = <<>>]))

\* fr.inside: the cards of the frame appended by a nested _appendToBatch
TallyInside(w, depth) ==
    IF depth > 1 THEN [w EXCEPT !.fr.inside = @ + (w.fr.cards - frame.cards)] ELSE w

\* lines 2009-2201: a child drawn as one card, or passed over for lack of an image
DrawChildOf(NS, limit) ==
    /\ phase = "draw"
    /\ frame.nodes < limit
    /\ \E c \in NS :
        /\ ~ Skipped(Top, c)
        /\ UseCache(Top, c) # 0 \/ c.kind # "container"
        /\ LET n == frame.nodes + 1
               w1 == [Emit(W0, VisitEvt(n, c, Top, UseCache(Top, c))) EXCEPT !.fr.nodes = @ + 1]
           IN Settle(TallyInside(AppendItem(w1, c, n, UseCache(Top, c)), Len(stack)), stack)

\* lines 2204-2206: the loop of a nested container ends
ReturnChild ==
    /\ phase = "draw"
    /\ Top.root = "child"
    /\ LET w1 == IF stage.renderMode # Top.previousRenderMode
                 THEN _updateRenderMode(W0, Top.previousRenderMode) ELSE W0
       IN Settle(Emit(w1, [t |-> "return", node |-> Top.node,
                           entry |-> Top.previousRenderMode]), Pop)

(***************************************************************************)
(* purgeTextures(count)                                                    *)
(***************************************************************************)
\* line 953 with the comparison turned round
Aged_reversed(w, i, count) ==
    w.im[i].drawID # Undef /\ w.im[i].drawID + count >= w.st.drawID
\* line 953 with < in place of <=
Aged_strict(w, i, count) ==
    w.im[i].drawID # Undef /\ w.im[i].drawID + count < w.st.drawID
\* line 953: the source was last drawn count or more frames ago
Aged(w, i, count) ==
    w.im[i].drawID # Undef /\ w.im[i].drawID + count <= w.st.drawID

RECURSIVE PurgeData(_, _, _, _)
\* the inner loop over texture._imageData: detaches the aged sources
PurgeData(w, t, count, j) ==
    IF j > Len(w.tx[t].imageData) THEN w
    ELSE LET i == w.tx[t].imageData[j]
         IN IF Aged(w, i, count)
            THEN PurgeData([w EXCEPT !.im[i].storeID = Undef,
                                     !.tx[t].imageData =
                                        SubSeq(@, 1, j - 1) \o SubSeq(@, j + 1, Len(@))],
                           t, count, j)
            ELSE PurgeData(w, t, count, j + 1)

RECURSIVE PurgeFrom(_, _, _)
PurgeFrom(w, k, count) ==
    IF k > Len(w.st.textureDictionary) THEN w
    ELSE Let(w.st.textureDictionary[k], LAMBDA t :
         IF t = NoTexture \/ ~ w.tx[t].hasData THEN PurgeFrom(w, k + 1, count)
         ELSE Let(PurgeData(w, t, count, 1), LAMBDA w1 :
              PurgeFrom(IF Len(w1.tx[t].imageData) = 0
                        THEN _killTextureObject(w1, t) ELSE w1,
                        k + 1, count)))

\* fr.purged: the least count of the purges made since the frame began
purgeTextures(w, count) ==
    PurgeFrom([Emit(w, [t |-> "purge", count |-> count, at |-> w.st.drawID,
                        before |-> w.tx, dict |-> w.st.textureDictionary,
                        imgs |-> w.im, prior |-> w.fr.purged,
                        pending |-> w.fr.pending, cursor |-> w.st.batchVertexCount])
                 EXCEPT !.fr.purged = IF @ = Undef THEN count ELSE Min(@, count)],
              1, count)

(***************************************************************************)
(* The end of the stage's own loop, of _drawContent and of draw            *)
(* (lines 2204-2206, 1867-1868, 764-785).                                  *)
(***************************************************************************)
\* line 781; a remainder by zero is NaN, and !NaN is true
PurgeDue(w) ==
    /\ w.st.autoPurge # 0 - 1
    /\ Let(w.st.autoPurge \div 2, LAMBDA period :
           IF period = 0 THEN TRUE ELSE w.st.drawID % period = 0)

\* f is the activation record of the stage's own _appendToBatch
DrawEnd(w, f) ==
    Let(_renderBatch(IF w.st.renderMode # f.previousRenderMode
                     THEN _updateRenderMode(w, f.previousRenderMode) ELSE w,
                     "contentEnd"), LAMBDA w2 :
    Let(IF ~ w2.st.directDraw /\ w2.st.renderPerDraw > 0
        THEN _drawCover(w2, "finalOutput", "none") ELSE w2, LAMBDA w3 :
    Let([w3 EXCEPT !.st.bufferTextureOutput = w3.st.batchTextureOutput,
                   !.st.bufferTextureConcat = w3.st.batchTextureConcat,
                   !.st.bufferTextureTemp = w3.st.batchTextureTemp,
                   !.st.batchTextureOutput = f.store[1],
                   !.st.batchTextureConcat = f.store[2],
                   !.st.batchTextureTemp = f.store[3]], LAMBDA w4 :
        IF PurgeDue(w4) THEN purgeTextures(w4, w4.st.autoPurge) ELSE w4)))

EndDraw ==
    /\ phase = "draw"
    /\ Top.root = "draw"
    /\ Commit(Emit(DrawEnd(W0, Top), [t |-> "end", entry |-> Top.previousRenderMode]))
    /\ phase' = "idle"
    /\ stack' = <<>>

PurgeTextures ==
    /\ phase = "idle"
    /\ \E count \in 0..MaxDraws :
        /\ Commit(purgeTextures(W0, count))
        /\ UNCHANGED <<phase, stack>>

(***************************************************************************)
(* releaseTexture(item, safe) for an item that is an Image element or a    *)
(* Bitmap showing one (no children, no cache).  In safe mode a source that *)
(* resolves to no texture, or to one without _imageData, is dereferenced   *)
(* through undefined: a TypeError.                                         *)
(***************************************************************************)
IndexOf(data, i) ==
    IF \E k \in DOMAIN data : data[k] = i
    THEN CHOOSE k \in DOMAIN data : data[k] = i /\ \A j \in 1..(k - 1) : data[j] # i
    ELSE 0

\* data.splice(index) without the count: everything from index on goes
Splice_tail(data, index) == SubSeq(data, 1, index - 1)
\* data.splice(index, 1)
Splice(data, index) == SubSeq(data, 1, index - 1) \o SubSeq(data, index + 1, Len(data))

\* lines 892-916: the image the item stands for; 0 when there is none
FoundImage(w, item) ==
    IF item.kind = "image"
    THEN (IF w.im[item.ref].storeID # Undef THEN item.ref ELSE 0)
    ELSE item.ref

releaseTexture(w, item, safe) ==
    Let(FoundImage(w, item), LAMBDA i :
    Let(Emit(w, [t |-> "release", item |-> item, img |-> i, safe |-> safe,
                 before |-> w.tx, dict |-> w.st.textureDictionary, imgs |-> w.im]),
        LAMBDA w1 :
        IF i = 0 THEN w1
        ELSE Let(Dict(w1, w1.im[i].storeID), LAMBDA t :
             IF ~ safe THEN _killTextureObject(w1, t)
             ELSE IF t = NoTexture \/ ~ w1.tx[t].hasData THEN [w1 EXCEPT !.threw = TRUE]
             ELSE Let(IndexOf(w1.tx[t].imageData, i), LAMBDA index :
                  Let([w1 EXCEPT !.tx[t].imageData =
                                    IF index >= 1 THEN Splice(@, index) ELSE @,
                                 !.im[i].storeID = Undef], LAMBDA w2 :
                      IF Len(w2.tx[t].imageData) = 0
                      THEN _killTextureObject(w2, t) ELSE w2)))))

ReleaseItems ==
    { [kind |-> k, ref |-> i] : k \in {"image", "bitmap"}, i \in PlainImages }

ReleaseTexture ==
    /\ phase = "idle"
    /\ \E item \in ReleaseItems, safe \in BOOLEAN :
        LET w == releaseTexture(W0, item, safe)
        IN /\ Commit(Emit(w, [t |-> "released", threw |-> w.threw]))
           /\ UNCHANGED <<phase, stack>>

(***************************************************************************)
(* The autoPurge setter (lines 635-641); Undef is a value that is NaN.     *)
(***************************************************************************)
\* a setter that stores the value as given
autoPurge_asGiven(value) == value
autoPurge(value) ==
    IF value = Undef THEN Max(1200, AutoPurgeFloor)
    ELSE IF value = 0 - 1 THEN value ELSE Max(value, AutoPurgeFloor)

SetAutoPurge ==
    /\ phase = "idle"
    /\ \E value \in {0 - 1, 0} :
        /\ stage' = [stage EXCEPT !.autoPurge = autoPurge(value)]
        /\ evts' = <<[t |-> "autoPurge", value |-> value]>>
        /\ UNCHANGED <<phase, textures, images, arrays, stack, frame, caches, manager, queue>>

(***************************************************************************)
(* The filters of a cache target.  A list of filters is described by the   *)
(* lengths of the multi-pass chains of its entries: entry i is the filter  *)
(* FilterNames[i][1], its _multiPass link FilterNames[i][2].  The empty    *)
(* list stands for filters === null.                                       *)
(***************************************************************************)
FilterNames == << <<"a1", "a2">>, <<"b1", "b2">> >>

\* BitmapCache.filterCounter, reduced over the list from 0
RECURSIVE filterCounter(_)
filterCounter(filters) ==
    IF filters = <<>> THEN 0 ELSE Head(filters) + filterCounter(Tail(filters))

\* the loop of _getGLFilter standing at link j of entry i with `lookup` steps to go
RECURSIVE GLFilterFrom(_, _, _, _)
GLFilterFrom(filters, i, j, lookup) ==
    IF i > Len(filters) THEN "none"
    ELSE IF lookup - 1 < 0 THEN FilterNames[i][j]
    ELSE IF j < filters[i] THEN GLFilterFrom(filters, i, j + 1, lookup - 1)
    ELSE GLFilterFrom(filters, i + 1, 1, lookup - 1)

\* a lookup one step off
_getGLFilter_next(filters, lookup) ==
    IF filters = <<>> \/ lookup < 0 THEN "none" ELSE GLFilterFrom(filters, 1, 1, lookup + 1)
\* _getGLFilter(lookup); "none" is undefined
_getGLFilter(filters, lookup) ==
    IF filters = <<>> \/ lookup < 0 THEN "none" ELSE GLFilterFrom(filters, 1, 1, lookup)

(***************************************************************************)
(* cacheDraw(target, manager).  The target is given by the bitmaps it      *)
(* draws, in child order: a bitmap by itself, a container of bitmaps by    *)
(* its children.  The manager is the record w.mg.                          *)
(***************************************************************************)
\* the child loop of _appendToBatch under ignoreCache, over bitmaps
RECURSIVE AppendAll(_, _, _)
AppendAll(w, cs, n) ==
    IF cs = <<>> \/ w.threw THEN w
    ELSE AppendAll(AppendItem([w EXCEPT !.fr.nodes = @ + 1], Head(cs), n, 0), Tail(cs), n + 1)

\* line 832: the cache surface is not the buffer the passes will end in
Misaligned(w, odd) ==
    w.mg.cacheCanvas #
        Surface(IF odd THEN w.st.batchTextureConcat ELSE w.st.batchTextureOutput)

\* lines 838-845: the loop of cover draws
RECURSIVE FilterPasses(_, _, _)
FilterPasses(w, filterCount, filtersLeft) ==
    IF filtersLeft = 0 \/ w.threw THEN w
    ELSE Let(_getGLFilter(w.mg.filters, filterCount - filtersLeft), LAMBDA filter :
         Let([w EXCEPT !.st.batchTextureConcat = w.st.batchTextureOutput,
                       !.st.batchTextureOutput =
                           IF w.st.isCacheControlled /\ filtersLeft - 1 = 0
                           THEN StageSelf ELSE w.st.batchTextureConcat], LAMBDA w1 :
              FilterPasses(
                  IF w1.st.batchTextureOutput = NoTexture
                  THEN [w1 EXCEPT !.threw = TRUE]
                  ELSE _drawCover(w1, "filterPass", filter),
                  filterCount, filtersLeft - 1)))

\* lines 802-806 read _batchTextures[i] for every i below _gpuTextureCount, the
\* device's MAX_TEXTURE_IMAGE_UNITS (line 1531): past the end of the table the
\* element is undefined and reading its _frameBuffer is a TypeError
cacheDraw(w0, cs) ==
    Let(Emit(w0, [t |-> "slots", upto |-> w0.st.host.units,
                  len |-> Len(w0.st.batchTextures)]), LAMBDA w :
    IF w.st.host.units > Len(w.st.batchTextures) THEN [w EXCEPT !.threw = TRUE]
    ELSE
    Let(w.mg.filterCount % 2 = 1, LAMBDA odd :
    Let(_updateRenderMode(
            [w EXCEPT
               !.st.batchTextures =
                   [k \in DOMAIN @ |-> IF w.tx[@[k]].frameBuffer
                                        THEN w.st.baseTextures[k] ELSE @[k]],
               !.st.batchTextureOutput =
                   IF odd THEN w.mg.bufferTextureConcat ELSE w.mg.bufferTextureOutput,
               !.st.batchTextureConcat =
                   IF odd THEN w.mg.bufferTextureOutput ELSE w.mg.bufferTextureConcat,
               !.st.batchTextureTemp = w.mg.bufferTextureTemp,
               !.st.viewport = CacheSize],
            "source-over"), LAMBDA w2 :
    IF w2.st.batchTextureOutput = NoTexture THEN [w2 EXCEPT !.threw = TRUE]
    ELSE
    Let(AppendAll([w2 EXCEPT !.st.activeShader = "main"], cs, 1), LAMBDA w3 :
    Let(_renderBatch(IF w3.st.renderMode # w2.st.renderMode
                     THEN _updateRenderMode(w3, w2.st.renderMode) ELSE w3,
                     "contentEnd"), LAMBDA w5 :
    Let(Emit(w5, [t |-> "content", out |-> w5.st.batchTextureOutput,
                  concat |-> w5.st.batchTextureConcat,
                  filterCount |-> w.mg.filterCount, filters |-> w.mg.filters,
                  surface |-> w.mg.cacheCanvas,
                  controlled |-> w.st.isCacheControlled]), LAMBDA w6 :
    Let(IF w6.st.isCacheControlled
        THEN FilterPasses(w6, w.mg.filterCount + 1, w.mg.filterCount + 1)
        ELSE IF Misaligned(w6, odd)
        THEN FilterPasses(w6, w.mg.filterCount, w.mg.filterCount + 1)
        ELSE FilterPasses(w6, w.mg.filterCount, w.mg.filterCount), LAMBDA w7 :
        IF w7.threw THEN w7
        ELSE [w7 EXCEPT !.mg.bufferTextureOutput = w7.st.batchTextureOutput,
                        !.mg.bufferTextureConcat = w7.st.batchTextureConcat,
                        !.mg.bufferTextureTemp = w7.st.batchTextureTemp,
                        !.st.batchTextureOutput = w.st.batchTextureOutput,
                        !.st.batchTextureConcat = w.st.batchTextureConcat,
                        !.st.batchTextureTemp = w.st.batchTextureTemp,
                        !.st.viewport = w.st.viewport])))))))

(***************************************************************************)
(* BitmapCache.define(target, ..., {useGL: stage}) on a node without a     *)
(* cache, by a BitmapCache of its own: update() obtains the output render  *)
(* texture, makes it the cacheCanvas and draws the target into it.         *)
(***************************************************************************)
CacheDefineOf(Targets) ==
    /\ phase = "idle"
    /\ Cardinality(caches) < MaxCaches
    /\ \E c \in Targets :
        LET w1 == getRenderBufferTexture(
                      [W0 EXCEPT !.fr = [NewFrame EXCEPT !.purged = frame.purged]],
                      CacheSize)
            r == w1.made
            w2 == IF w1.threw \/ w1.over THEN w1
                  ELSE cacheDraw([w1 EXCEPT !.ca = @ \cup {r},
                                            !.mg = [NewManager EXCEPT
                                                      !.target = <<c>>,
                                                      !.stageGL = TRUE,
                                                      !.bufferTextureOutput = r,
                                                      !.cacheCanvas = Surface(r)]],
                                 <<c>>)
        IN /\ Commit([Emit(w2, [t |-> "define", surface |-> r]) EXCEPT !.mg = manager])
           /\ UNCHANGED <<phase, stack>>

(***************************************************************************)
(* Spec: one frame over every kind of node.                                *)
(***************************************************************************)
DrawStart == DrawStartOf(1, Ops, Alphas, BOOLEAN)
SkipChild == SkipChildOf(Nodes, MaxNodes)
EnterContainer == EnterContainerOf(Nodes, MaxNodes)
DrawChild == DrawChildOf(Nodes, MaxNodes)

Next ==
    \/ DrawStart
    \/ SkipChild
    \/ EnterContainer
    \/ DrawChild
    \/ ReturnChild
    \/ EndDraw

Spec == Init /\ [][Next]_vars

(***************************************************************************)
(* SpecFrames: several frames of plain bitmaps and cached nodes, with      *)
(* texture purges between them.                                            *)
(***************************************************************************)
PlainNodes == { Node("bitmap", TRUE, AlphaOne, "none", i, 0, FALSE) : i \in PlainImages }
\* bitmaps shown from a WebGL cache that has been defined
SurfaceNodes == { Node("bitmap", TRUE, AlphaOne, "none", 1, Surface(t), FALSE) : t \in caches }

InitFrames == InitOf(GLHosts, {MaxBatchCards + 1})
CacheDefine == CacheDefineOf({ Node("bitmap", TRUE, AlphaOne, "none", 3, 0, FALSE) })
DrawStartPlain == DrawStartOf(MaxDraws, {"none"}, {AlphaOne}, {FALSE})
DrawChildPlain == DrawChildOf(PlainNodes \cup SurfaceNodes, MaxFrameNodes)

NextFrames ==
    \/ CacheDefine
    \/ DrawStartPlain
    \/ DrawChildPlain
    \/ EndDraw
    \/ PurgeTextures

SpecFrames == InitFrames /\ [][NextFrames]_vars

(***************************************************************************)
(* SpecTextures: frames of plain bitmaps with explicit purges and releases *)
(* of textures between them.                                               *)
(***************************************************************************)
NextTextures ==
    \/ DrawStartPlain
    \/ DrawChildPlain
    \/ EndDraw
    \/ PurgeTextures
    \/ ReleaseTexture

SpecTextures == InitFrames /\ [][NextTextures]_vars

(***************************************************************************)
(* SpecAutoPurge: a run of short frames long enough for the automatic      *)
(* purge of draw to find aged textures.                                    *)
(***************************************************************************)
InitAutoPurge == InitOf({<<TRUE, FALSE>>}, {MaxBatchCards})
\* the application chooses the purge period before it draws
SetAutoPurgeFirst == stage.drawID = 0 /\ SetAutoPurge
DrawStartAuto == DrawStartOf(MaxAutoDraws, {"none"}, {AlphaOne}, {FALSE})
\* bitmaps of two Image elements that share no texture
AutoNodes == { Node("bitmap", TRUE, AlphaOne, "none", i, 0, FALSE) : i \in PlainImages \ {2} }
DrawChildAuto == DrawChildOf(AutoNodes, 1)

NextAutoPurge ==
    \/ SetAutoPurgeFirst
    \/ DrawStartAuto
    \/ DrawChildAuto
    \/ EndDraw

SpecAutoPurge == InitAutoPurge /\ [][NextAutoPurge]_vars

(***************************************************************************)
(* SpecCache: one frame over cached and uncached bitmaps and containers,   *)
(* the caches being canvases (2D caches) or render textures (WebGL caches).*)
(***************************************************************************)
CacheNodes ==
    { Node(k, TRUE, AlphaOne, "none", 1, cv, FALSE) :
          k \in {"bitmap", "container"},
          cv \in {0} \cup Canvases \cup { Surface(t) : t \in caches } }

CacheDefineOne == CacheDefineOf({ Node("bitmap", TRUE, AlphaOne, "none", 3, 0, FALSE) })
DrawStartCache == DrawStartOf(1, {"none"}, {AlphaOne}, BOOLEAN)
EnterContainerCache == EnterContainerOf(CacheNodes, MaxNodes)
DrawChildCache == DrawChildOf(CacheNodes, MaxNodes)

NextCache ==
    \/ CacheDefineOne
    \/ DrawStartCache
    \/ EnterContainerCache
    \/ DrawChildCache
    \/ ReturnChild
    \/ EndDraw

SpecCache == InitFrames /\ [][NextCache]_vars

(***************************************************************************)
(* SpecBatch: one long frame of plain bitmaps over three textures (two     *)
(* Image elements with a src of their own and a canvas).                   *)
(***************************************************************************)
BatchNodes == { Node("bitmap", TRUE, AlphaOne, "none", i, 0, FALSE) :
                    i \in (PlainImages \ {2}) \cup Canvases }

DrawStartBatch == DrawStartOf(1, {"none"}, {AlphaOne}, {FALSE})
DrawChildBatch == DrawChildOf(BatchNodes, MaxBatchNodes)

NextBatch ==
    \/ DrawStartBatch
    \/ DrawChildBatch
    \/ EndDraw

SpecBatch == Init /\ [][NextBatch]_vars

(***************************************************************************)
(* SpecLost: one frame of plain bitmaps on a host whose createTexture      *)
(* starts to return null at some moment (a lost context).                  *)
(***************************************************************************)
CreateTextureFails ==
    /\ phase \in {"idle", "draw"}
    /\ ~ stage.createFails
    /\ stage' = [stage EXCEPT !.createFails = TRUE]
    /\ evts' = <<[t |-> "lost"]>>
    /\ UNCHANGED <<phase, textures, images, arrays, stack, frame, caches, manager, queue>>

NextLost ==
    \/ DrawStartBatch
    \/ DrawChildBatch
    \/ EndDraw
    \/ CreateTextureFails

SpecLost == Init /\ [][NextLost]_vars

(***************************************************************************)
(* BitmapCache.  The cache followed is `manager`; its target is not on a   *)
(* stage, and its size does not change between updates.  A snapshot made   *)
(* by toDataURL is written as the number of the draw it shows, null as 0.  *)
(***************************************************************************)
\* lines 556-610; useGL "instance" is a StageGL handed in: the modelled stage
_updateSurface(w) ==
    IF w.mg.useGL = "none"
    THEN [w EXCEPT !.mg.cacheCanvas = IF @ = 0 THEN OwnCanvas ELSE @]
    ELSE IF w.mg.stageGL THEN w
    ELSE IF w.mg.useGL = "new"
    THEN Let(Constructed(TRUE, w.st.hostWH, MaxBatchCards + 1), LAMBDA c :
             [w EXCEPT !.mg.cacheCanvas = OwnCanvas,
                       !.mg.stageGL = TRUE,
                       !.st = [c.st EXCEPT !.autoPurge = autoPurge(AutoPurgeFloor),
                                           !.isCacheControlled = TRUE],
                       !.tx = c.tx,
                       !.ar = c.ar])
    ELSE [w EXCEPT !.mg.stageGL = TRUE]

\* update, lines 432-449: the render buffers of a WebGL cache
UpdateBuffers(w) ==
    Let(IF w.mg.bufferTextureOutput = NoTexture
        THEN Let(getRenderBufferTexture(w, CacheSize), LAMBDA wa :
                 [wa EXCEPT !.mg.bufferTextureOutput = wa.made])
        ELSE resizeTexture(w, w.mg.bufferTextureOutput, CacheSize), LAMBDA w1 :
    IF w1.threw THEN w1
    ELSE
    Let(IF w1.mg.cacheCanvas = 0
        THEN [w1 EXCEPT !.mg.cacheCanvas = Surface(w1.mg.bufferTextureOutput)]
        ELSE w1, LAMBDA w2 :
        IF w2.mg.filterCount >= 1
        THEN IF w2.mg.bufferTextureConcat = NoTexture
             THEN Let(getRenderBufferTexture(w2, CacheSize), LAMBDA wb :
                      [wb EXCEPT !.mg.bufferTextureConcat = wb.made])
             ELSE resizeTexture(w2, w2.mg.bufferTextureConcat, CacheSize)
        ELSE w2))

\* lines 617-640
_drawToCache(w) ==
    IF w.threw THEN w
    ELSE Let(IF w.mg.stageGL THEN cacheDraw(w, w.mg.target) ELSE w, LAMBDA w1 :
             IF w1.threw THEN w1 ELSE [w1 EXCEPT !.mg.content = @ + 1])

\* line 459 without the increment
NextCacheID_same(id) == IF id # 0 /\ id # Undef THEN id ELSE 1
\* line 459: this.cacheID ? this.cacheID + 1 : 1
NextCacheID(id) == IF id # 0 /\ id # Undef THEN id + 1 ELSE 1

\* lines 418-460; the event tells the manager before and after the call
update(w) ==
    Let(IF w.mg.target = <<>> THEN [w EXCEPT !.threw = TRUE]
        ELSE
        Let([w EXCEPT !.mg.filterCount = filterCounter(w.mg.filters)], LAMBDA w1 :
        Let(IF w1.mg.cacheCanvas = 0 THEN _updateSurface(w1) ELSE w1, LAMBDA w2 :
        Let(IF w2.mg.stageGL THEN UpdateBuffers(w2) ELSE w2, LAMBDA w3 :
        Let(_drawToCache(w3), LAMBDA w4 :
            IF w4.threw THEN w4
            ELSE [w4 EXCEPT !.mg.cacheID = NextCacheID(@)])))), LAMBDA r :
        Emit(r, [t |-> "update", before |-> w.mg, after |-> r.mg, threw |-> r.threw]))

\* _killTextureObject of a buffer field; for the stage itself every step of
\* it is skipped or fails inside its try blocks
KillBuffer(w, t) ==
    IF t = NoTexture \/ t = StageSelf THEN w ELSE _killTextureObject(w, t)

\* lines 465-484
release(w) ==
    Let(IF w.mg.stageGL
        THEN [KillBuffer(KillBuffer(KillBuffer(w, w.mg.bufferTextureOutput),
                                    w.mg.bufferTextureConcat),
                         w.mg.bufferTextureTemp)
                EXCEPT !.mg.stageGL = FALSE]
        ELSE IF w.mg.target = <<>> THEN [w EXCEPT !.threw = TRUE]
        ELSE w, LAMBDA w1 :
        IF w1.threw THEN w1
        ELSE [w1 EXCEPT !.mg.target = <<>>,
                        !.mg.filters = <<>>,
                        !.mg.cacheCanvas = 0,
                        !.mg.cacheID = Undef,
                        !.mg.cacheDataURLID = Undef,
                        !.mg.cacheDataURL = Undef])

\* line 498: this.cacheID !== this._cacheDataURLID
SnapshotStale(mg) == mg.cacheID # mg.cacheDataURLID

\* lines 494-502; the value returned is the field `returned` of the event
getCacheDataURL(w) ==
    Let(w.mg, LAMBDA mg :
    IF mg.target = <<>> \/ mg.cacheCanvas = 0
    THEN Emit(w, [t |-> "dataURL", before |-> mg, after |-> mg, returned |-> 0,
                  made |-> FALSE])
    ELSE Let(IF SnapshotStale(mg)
             THEN [mg EXCEPT !.cacheDataURLID = mg.cacheID,
                             !.cacheDataURL =
                                 IF mg.cacheCanvas = OwnCanvas THEN mg.content ELSE 0]
             ELSE mg, LAMBDA after :
         Emit([w EXCEPT !.mg = after],
              [t |-> "dataURL", before |-> mg, after |-> after,
               returned |-> after.cacheDataURL, made |-> SnapshotStale(mg)])))

\* define(target, x, y, width, height, scale, options), lines 397-408.  The
\* target is given by its bitmaps in child order, its filters by the lengths
\* of their chains.  A stage of its own is made for a cache that had none
\* (useGL "new") and is then the stage followed.
Define ==
    /\ phase = "idle"
    /\ manager.content < MaxUpdates
    /\ \E o \in {"none", "multiply"}, twice \in BOOLEAN,
          fl \in { <<>>, <<1>>, <<2>>, <<2, 1>> },
          gl \in {"none", "instance", "new"} :
        /\ twice => o = "multiply"
        /\ gl = "instance" => ~ stage.isCacheControlled
        /\ gl = "new" => \/ stage.isCacheControlled
                         \/ manager.content = 0 /\ ~ manager.stageGL
        /\ LET c == Node("bitmap", TRUE, AlphaOne, o, 1, 0, FALSE)
           IN Commit(update([W0 EXCEPT !.fr = NewFrame,
                                       !.mg.target = IF twice THEN <<c, c>> ELSE <<c>>,
                                       !.mg.filters = fl,
                                       !.mg.useGL = gl]))
        /\ UNCHANGED <<phase, stack>>

Update ==
    /\ phase = "idle"
    /\ manager.content < MaxUpdates
    /\ Commit(update([W0 EXCEPT !.fr = NewFrame]))
    /\ UNCHANGED <<phase, stack>>

Release ==
    /\ phase = "idle"
    /\ LET w == release(W0)
       IN Commit(Emit(w, [t |-> "release", before |-> manager, threw |-> w.threw]))
    /\ UNCHANGED <<phase, stack>>

GetCacheDataURL ==
    /\ phase = "idle"
    /\ Commit(getCacheDataURL(W0))
    /\ UNCHANGED <<phase, stack>>

NextManager ==
    \/ Define
    \/ Update
    \/ Release
    \/ GetCacheDataURL

SpecManager == InitFrames /\ [][NextManager]_vars

(***************************************************************************)
(* SpecScene: one frame over plain bitmaps and plain containers.           *)
(***************************************************************************)
PlainContainers == { Node("container", TRUE, AlphaOne, "none", 0, 0, FALSE) }
EnterContainerScene == EnterContainerOf(PlainContainers, MaxSceneNodes)
DrawChildScene == DrawChildOf(PlainNodes, MaxSceneNodes)

NextScene ==
    \/ DrawStartBatch
    \/ EnterContainerScene
    \/ DrawChildScene
    \/ ReturnChild
    \/ EndDraw

SpecScene == Init /\ [][NextScene]_vars

(***************************************************************************)
(* SpecUpload: frames over Image elements some of which have not finished  *)
(* loading, or come from an origin whose pixels WebGL refuses.             *)
(***************************************************************************)
InitUpload ==
    \E late \in SUBSET PlainImages, foreign \in SUBSET { SrcOf(i) : i \in PlainImages } :
        LET w == Constructed(TRUE, FALSE, MaxBatchCards + 1)
        IN /\ phase = "idle"
           /\ stage = w.st
           /\ textures = w.tx
           /\ images = [i \in ImageIds |->
                          [NewImage EXCEPT !.ready = i \notin late,
                                           !.tainted = ~ IsCanvasElement(i)
                                                       /\ SrcOf(i) \in foreign]]
           /\ arrays = w.ar
           /\ stack = <<>>
           /\ evts = <<>>
           /\ frame = w.fr
           /\ caches = {}
           /\ manager = w.mg
           /\ queue = NewQueue

\* the load event of an Image element, between two frames
ImageLoads ==
    /\ phase = "idle"
    /\ \E i \in PlainImages :
        /\ ~ images[i].ready
        /\ images' = [images EXCEPT ![i].ready = TRUE]
        /\ evts' = <<[t |-> "loaded", img |-> i]>>
    /\ UNCHANGED <<phase, stage, textures, arrays, stack, frame, caches, manager, queue>>

NextUpload ==
    \/ DrawStartOf(MaxUploadDraws, {"none"}, {AlphaOne}, {FALSE})
    \/ DrawChildPlain
    \/ EndDraw
    \/ ImageLoads

SpecUpload == InitUpload /\ [][NextUpload]_vars

(***************************************************************************)
(* SpecLostCache: the life of one cache on a host whose createTexture      *)
(* starts to return null at some moment.                                   *)
(***************************************************************************)
NextLostCache ==
    \/ CreateTextureFails
    \/ stage.batchID < MaxLostBatches /\ Define
    \/ stage.batchID < MaxLostBatches /\ Update

SpecLostCache == InitFrames /\ [][NextLostCache]_vars

(***************************************************************************)
(* SpecInit: construction on a host that may give no WebGL context, or     *)
(* whose shader compiler accepts the batch shader only up to some sampler  *)
(* count; then the 2D fallbacks of a renderer without a context, and       *)
(* protectTextureSlot of AJStageGL.                                        *)
(***************************************************************************)
\* a host on which every canvas gives a context
_fetchWebGLContext_any(host) == "gl"
\* canvas.getContext("webgl") gives a context, gives null, or throws
_fetchWebGLContext(host) ==
    IF host.context = "gl" THEN "gl"
    ELSE IF host.context = "throws" THEN "undefined" ELSE "null"

isWebGLActive(ctx) == ctx = "gl"

\* _fetchShaderProgram(false) with _batchTextureCount = n: links or throws
Compiles(w, n) == n >= 1 /\ n <= w.st.host.limit

RECURSIVE _initMaterials(_, _)
\* the loop of StageGL lines 1535-1548, entered with n = _gpuTextureCount
_initMaterials(w, n) ==
    IF Compiles(w, n)
    THEN [Emit(w, [t |-> "compile", count |-> n, ok |-> TRUE])
            EXCEPT !.st.batchTextureCount = n]
    ELSE IF n <= 1
    THEN [Emit(w, [t |-> "compile", count |-> n, ok |-> FALSE])
            EXCEPT !.st.batchTextureCount = n, !.threw = TRUE]
    ELSE _initMaterials(Emit(w, [t |-> "compile", count |-> n, ok |-> FALSE]), n \div 2)

RECURSIVE updateSimultaneousTextureCount(_, _)
\* the loop of AJStageGL lines 410-426; count < 1 was raised to 1 at line 407
updateSimultaneousTextureCount(w, n) ==
    IF Compiles(w, n)
    THEN [Emit(w, [t |-> "compile", count |-> n, ok |-> TRUE])
            EXCEPT !.st.batchTextureCount = n]
    ELSE IF n = 1
    THEN [Emit(w, [t |-> "compile", count |-> n, ok |-> FALSE])
            EXCEPT !.st.batchTextureCount = n, !.threw = TRUE]
    ELSE updateSimultaneousTextureCount(
            Emit(w, [t |-> "compile", count |-> n, ok |-> FALSE]), Max(n - 4, 1))

\* the fields after the constructor's initialisers, before _initializeWebGL;
\* host.autoPurge is options.autoPurge, Undef when the option is not given:
\* StageGL hands it (1200 by default) to the setter, AJStageGL stores it
Fresh(class, host) ==
    [st |-> [NewStage(TRUE, host.globals, 1) EXCEPT
                !.class = class, !.host = host, !.webGLContext = "null",
                !.autoPurge = IF class = "AJStageGL" THEN host.autoPurge
                              ELSE autoPurge(host.autoPurge),
                !.batchTextureCount = IF class = "AJStageGL" THEN 8 ELSE 0,
                !.activeShader = "none", !.builtShaders = {}, !.texCount = 0,
                !.batchTextures = <<>>, !.baseTextures = <<>>, !.slotBlacklist = <<>>],
     tx |-> [k \in 0..MaxTextures |-> [NewTexture EXCEPT !.alive = FALSE]],
     im |-> [i \in ImageIds |-> NewImage],
     ar |-> [default |-> <<>>, micro |-> <<>>],
     ev |-> <<>>, fr |-> NewFrame, ca |-> {}, mg |-> NewManager,
     threw |-> FALSE, over |-> FALSE, made |-> NoTexture]

\* _initializeWebGL for a stage with a canvas and no context yet
_initializeWebGL(w) ==
    Let(_fetchWebGLContext(w.st.host), LAMBDA gl :
    Let([w EXCEPT !.st.webGLContext = gl], LAMBDA w1 :
        IF gl # "gl"
        THEN Emit(w1, [t |-> "init", returned |-> "null", threw |-> FALSE])
        ELSE Let(IF w.st.class = "StageGL"
                 THEN _initMaterials(w1, w.st.host.units)
                 ELSE updateSimultaneousTextureCount(w1, Max(w.st.host.units, 1)),
             LAMBDA w2 :
             IF w2.threw
             THEN Emit(w2, [t |-> "init", returned |-> "none", threw |-> TRUE])
             ELSE Emit([w2 EXCEPT
                          !.st.maxTextureSlots =
                              IF w.st.class = "AJStageGL" THEN w.st.host.combined ELSE @,
                          !.st.activeShader = "main",
                          !.st.builtShaders = {"source-over"},
                          !.st.texCount = 1,
                          !.tx[0] = [NewTexture EXCEPT !.storeID = 0 - 1],
                          !.st.slotBlacklist =
                              IF w.st.class = "AJStageGL" THEN @
                              ELSE [k \in 1..w2.st.batchTextureCount |-> FALSE],
                          !.st.batchTextures = [k \in 1..w2.st.batchTextureCount |-> 0],
                          !.st.baseTextures = [k \in 1..w2.st.batchTextureCount |-> 0]],
                       [t |-> "init", returned |-> "gl", threw |-> FALSE]))))

InitHost ==
    \E class \in {"StageGL", "AJStageGL"}, context \in {"gl", "null", "throws"},
       units \in 1..MaxSamplers, limit \in 0..MaxSamplers, wide \in BOOLEAN,
       purge \in {Undef, 0 - 1, AutoPurgeFloor \div 2}, globals \in BOOLEAN :
        LET w == Fresh(class, [context |-> context, units |-> units, limit |-> limit,
                               combined |-> IF wide THEN MaxSamplers ELSE units,
                               autoPurge |-> purge, globals |-> globals])
        IN /\ phase = "new"
           /\ stage = w.st
           /\ textures = w.tx
           /\ images = w.im
           /\ arrays = w.ar
           /\ stack = <<>>
           /\ evts = <<>>
           /\ frame = w.fr
           /\ caches = {}
           /\ manager = w.mg
           /\ queue = NewQueue

\* the end of the constructor: a fatal compile error leaves it by exception
Construct ==
    /\ phase = "new"
    /\ Let(_initializeWebGL(W0), LAMBDA w :
           /\ Commit(w)
           /\ phase' = IF w.threw THEN "ctorThrew" ELSE "idle")
    /\ UNCHANGED stack

\* update(props), lines 697-706: without a context the stage is cleared and
\* drawn through the canvas's 2D context
Update2D ==
    /\ phase = "idle"
    /\ ~ isWebGLActive(stage.webGLContext)
    /\ evts' = <<[t |-> "update", path |-> "2d", threw |-> FALSE]>>
    /\ UNCHANGED <<phase, stage, textures, images, arrays, stack, frame, caches, manager, queue>>

\* draw(context, ignoreCache), lines 736-741, handed a 2D context
Draw2D ==
    /\ phase = "idle"
    /\ ~ ("2d" = stage.webGLContext /\ isWebGLActive(stage.webGLContext))
    /\ evts' = <<[t |-> "draw", path |-> "2d", gl |-> stage.webGLContext,
                  threw |-> FALSE]>>
    /\ UNCHANGED <<phase, stage, textures, images, arrays, stack, frame, caches, manager, queue>>

\* cacheDraw(target, manager), lines 796-800: returns false
CacheDraw2D ==
    /\ phase = "idle"
    /\ ~ isWebGLActive(stage.webGLContext)
    /\ evts' = <<[t |-> "cacheDraw", returned |-> FALSE, gl |-> stage.webGLContext,
                  threw |-> FALSE]>>
    /\ UNCHANGED <<phase, stage, textures, images, arrays, stack, frame, caches, manager, queue>>

\* AJStageGL.protectTextureSlot(id, lock), lines 344-349; _maxTextureSlots is
\* undefined on a stage without a context, and id > undefined is false
ProtectTextureSlot ==
    /\ phase = "idle"
    /\ stage.class = "AJStageGL"
    /\ \E id \in {0 - 1, 0} \cup (IF stage.maxTextureSlots = Undef THEN {1}
                                  ELSE (stage.maxTextureSlots - 1)..(stage.maxTextureSlots + 1)),
          lock \in BOOLEAN :
        /\ Cardinality(DOMAIN stage.slotBlacklist \cup {id}) <= MaxProtects
        /\ LET throws == (stage.maxTextureSlots # Undef /\ id > stage.maxTextureSlots)
                             \/ id < 0
               after == IF throws THEN stage.slotBlacklist
                        ELSE [k \in DOMAIN stage.slotBlacklist \cup {id} |->
                                IF k = id THEN lock ELSE stage.slotBlacklist[k]]
           IN /\ stage' = [stage EXCEPT !.slotBlacklist = after]
              /\ evts' = <<[t |-> "protect", id |-> id, lock |-> lock, threw |-> throws,
                            before |-> stage.slotBlacklist, after |-> after,
                            slots |-> stage.maxTextureSlots]>>
    /\ UNCHANGED <<phase, textures, images, arrays, stack, frame, caches, manager, queue>>

\* bitmap.cache(..., {useGL: stage}) on a StageGL that has its context
CacheDefineInit ==
    /\ stage.class = "StageGL"
    /\ isWebGLActive(stage.webGLContext)
    /\ CacheDefineOf({ Node("bitmap", TRUE, AlphaOne, "none", 3, 0, FALSE) })

NextInit ==
    \/ Construct
    \/ Update2D
    \/ Draw2D
    \/ CacheDraw2D
    \/ ProtectTextureSlot
    \/ CacheDefineInit

SpecInit == InitHost /\ [][NextInit]_vars

(***************************************************************************)
(* SpecViewport: frames of plain and multiply-blended bitmaps, the         *)
(* definition of a WebGL cache on the stage, and updateViewport calls      *)
(* between them.                                                           *)
(***************************************************************************)
Abs(x) == IF x < 0 THEN 0 - x ELSE x

\* updateViewport(width, height), lines 971-986, with _updateDrawingSurface
\* (lines 1210-1224)
updateViewport(w, width, height) ==
    Let([w EXCEPT !.st.viewport = <<Abs(width), Abs(height)>>], LAMBDA w1 :
    Let(IF w1.st.bufferTextureOutput # StageSelf /\ w1.st.bufferTextureOutput # NoTexture
        THEN resizeTexture(w1, w1.st.bufferTextureOutput, w1.st.viewport)
        ELSE w1, LAMBDA w2 :
    Let(IF w2.st.bufferTextureConcat # NoTexture
        THEN resizeTexture(w2, w2.st.bufferTextureConcat, w2.st.viewport)
        ELSE w2, LAMBDA w3 :
        IF w3.st.bufferTextureTemp # NoTexture
        THEN resizeTexture(w3, w3.st.bufferTextureTemp, w3.st.viewport)
        ELSE w3)))

\* the arguments of the updateViewport calls
ViewSizes == { <<3, 3>>, <<0 - 2, 2>>, <<3, 0 - 1>> }

UpdateViewport ==
    /\ phase = "idle"
    /\ \E size \in ViewSizes :
        LET w == updateViewport([W0 EXCEPT !.fr = NewFrame], size[1], size[2])
        IN Commit(Emit(w, [t |-> "viewport", width |-> size[1], height |-> size[2],
                           threw |-> w.threw]))
    /\ UNCHANGED <<phase, stack>>

ViewNodes == { Node("bitmap", TRUE, AlphaOne, o, 1, 0, FALSE) : o \in {"none", "multiply"} }
CacheDefineView == CacheDefineOf(ViewNodes)
DrawStartView == DrawStartOf(MaxViewDraws, {"none"}, {AlphaOne}, {FALSE})
DrawChildView == DrawChildOf(ViewNodes, MaxFrameNodes)

NextViewport ==
    \/ UpdateViewport
    \/ CacheDefineView
    \/ DrawStartView
    \/ DrawChildView
    \/ EndDraw

SpecViewport == InitFrames /\ [][NextViewport]_vars

(***************************************************************************)
(* SpecProtect: one frame of plain bitmaps over three textures on a stage  *)
(* some of whose texture slots the application has protected.              *)
(***************************************************************************)
\* protectTextureSlot(id, lock) for a slot of the batch (AJStageGL.js lines
\* 344-349), writing the _slotBlacklist the slot search reads; the
\* application leaves at least one slot unprotected
LockTextureSlot ==
    /\ phase = "idle"
    /\ \E id \in 0..(stage.batchTextureCount - 1), lock \in BOOLEAN :
        LET after == [stage.slotBlacklist EXCEPT ![id + 1] = lock]
        IN /\ \E k \in DOMAIN after : ~ after[k]
           /\ stage' = [stage EXCEPT !.slotBlacklist = after]
           /\ evts' = <<[t |-> "lock", id |-> id, lock |-> lock]>>
    /\ UNCHANGED <<phase, textures, images, arrays, stack, frame, caches, manager, queue>>

NextProtect ==
    \/ LockTextureSlot
    \/ DrawStartBatch
    \/ DrawChildBatch
    \/ EndDraw

SpecProtect == InitFrames /\ [][NextProtect]_vars

(***************************************************************************)
(* SpecUV: the texture coordinates _appendToBatch writes for one card.  A  *)
(* coordinate is a fraction <<numerator, denominator>>; an item is a       *)
(* Bitmap without sourceRect or shown from a cache ("full"), a Bitmap with *)
(* a sourceRect ("rect") or a Sprite on a frame of its sheet ("frame"),    *)
(* over an image of width W and height H; the image of a frame may not     *)
(* have loaded yet (width and height 0).                                   *)
(***************************************************************************)
\* StageGL.UV_RECT, line 2406
UV_RECT == [t |-> <<1, 1>>, l |-> <<0, 1>>, b |-> <<0, 1>>, r |-> <<1, 1>>]

\* lines 2082-2085 and 552-557: the rectangle <<x, y, width, height>> of an
\* image of size W, H; 1 - y / H is (H - y) / H
UVOfRect(rect, W, H) ==
    [t |-> <<H - rect[2], H>>, l |-> <<rect[1], W>>,
     b |-> <<H - (rect[2] + rect[4]), H>>, r |-> <<rect[1] + rect[3], W>>]

\* buildUVRects(spritesheet, target, false) for the target frame f, lines
\* 540-560: a frame whose image has no size yet gets no uvRect, and the
\* literal of line 559 is returned
buildUVRects(f) ==
    IF f.W <= 0 \/ f.H <= 0
    THEN [t |-> <<0, 1>>, l |-> <<0, 1>>, b |-> <<1, 1>>, r |-> <<1, 1>>]
    ELSE UVOfRect(f.rect, f.W, f.H)

\* lines 2074-2116: the uvRect and the corners subL, subT, subR, subB
UVRectOf(item) ==
    IF item.kind = "rect" THEN UVOfRect(item.rect, item.W, item.H)
    ELSE IF item.kind = "full" THEN UV_RECT
    ELSE buildUVRects(item)

SubOf(item) ==
    IF item.kind = "full" THEN [L |-> 0, T |-> 0, R |-> item.W, B |-> item.H]
    ELSE [L |-> 0, T |-> 0, R |-> item.rect[3], B |-> item.rect[4]]

\* lines 2126-2160: the six vertices of the card, position and uv
CardPositions(sub) ==
    << <<sub.L, sub.T>>, <<sub.L, sub.B>>, <<sub.R, sub.T>>,
       <<sub.L, sub.B>>, <<sub.R, sub.T>>, <<sub.R, sub.B>> >>
CardUVs(uv) ==
    << <<uv.l, uv.t>>, <<uv.l, uv.b>>, <<uv.r, uv.t>>,
       <<uv.l, uv.b>>, <<uv.r, uv.t>>, <<uv.r, uv.b>> >>

\* rectangles inside an image of size W, H
RectsIn(W, H) ==
    { <<x, y, w, h>> \in (0..MaxImageDim) \X (0..MaxImageDim) \X
                         (1..MaxImageDim) \X (1..MaxImageDim) :
          x + w <= W /\ y + h <= H }

UVItems ==
    { [kind |-> "full", W |-> W, H |-> H, rect |-> <<0, 0, W, H>>] :
          W \in 1..MaxImageDim, H \in 1..MaxImageDim }
    \cup UNION { { [kind |-> k, W |-> W, H |-> H, rect |-> r] : r \in RectsIn(W, H) } :
                    k \in {"rect", "frame"}, W \in 1..MaxImageDim, H \in 1..MaxImageDim }
    \cup { [kind |-> "frame", W |-> 0, H |-> 0, rect |-> r] :
              r \in RectsIn(MaxImageDim, MaxImageDim) }

InitUV == InitOf({<<TRUE, TRUE>>}, {MaxBatchCards + 1})

\* the item met by the child loop
MeetItem ==
    /\ phase = "idle"
    /\ evts = <<>>
    /\ \E item \in UVItems : evts' = <<[t |-> "item", item |-> item]>>
    /\ UNCHANGED <<phase, stage, textures, images, arrays, stack, frame, caches, manager, queue>>

\* the writes of its card into the position and uv arrays
WriteCardUV ==
    /\ phase = "idle"
    /\ evts # <<>> /\ evts[1].t = "item"
    /\ evts' = <<[t |-> "uv", item |-> evts[1].item,
                  pos |-> CardPositions(SubOf(evts[1].item)),
                  uv |-> CardUVs(UVRectOf(evts[1].item))]>>
    /\ UNCHANGED <<phase, stage, textures, images, arrays, stack, frame, caches, manager, queue>>

NextUV ==
    \/ MeetItem
    \/ WriteCardUV

SpecUV == InitUV /\ [][NextUV]_vars

(***************************************************************************)
(* The load queue between calls of its user and events of its loaders.     *)
(***************************************************************************)

InitQueue == InitOf({<<TRUE, TRUE>>}, {MaxBatchCards + 1})

\* what every operation of the queue leaves: its dispatches in evts, with whether
\* it ended in an exception
QueueDone(op, q) ==
    /\ queue' = [q EXCEPT !.ev = <<>>, !.threw = FALSE]
    /\ evts' = <<[t |-> op, threw |-> q.threw]>> \o q.ev
    /\ UNCHANGED <<phase, stage, textures, images, arrays, stack, frame, caches, manager>>

LoadFile ==
    /\ Len(queue.loaders) < MaxItems
    /\ \E kind \in ItemKinds, load \in LoadOutcomes, loadNow \in BOOLEAN :
        /\ load = "throws" =>
               /\ kind = "plain"
               /\ Cardinality({ k \in 1..Len(queue.loaders) :
                                   queue.loaders[k].load = "throws" }) < MaxThrowers
        /\ QueueDone("loadFile", loadFile(queue, kind, load, loadNow))

SetPaused ==
    /\ \E value \in BOOLEAN : QueueDone("setPaused", setPaused(queue, value))

SetMaxConnections ==
    /\ \E value \in 1..MaxConnections :
        QueueDone("setMaxConnections", setMaxConnections(queue, value))

\* stopOnError is chosen before the first item is added
SetStopOnError ==
    /\ queue.loaders = <<>>
    /\ \E value \in BOOLEAN :
        QueueDone("stopOnError", [queue EXCEPT !.stopOnError = value])

Remove ==
    /\ \E id \in 1..Len(queue.loaders) : QueueDone("remove", remove(queue, id))

RemoveAll ==
    /\ QueueDone("removeAll", removeAll(queue))

Close ==
    /\ QueueDone("close", close(queue))

\* the loader of a load under way dispatches complete
FileComplete ==
    /\ \E id \in InFlight(queue) :
           QueueDone("fileComplete", _handleFileComplete(queue, id))

\* the loader of a load under way dispatches error
FileError ==
    /\ \E id \in InFlight(queue) : QueueDone("fileError", _handleError(queue, id))

NextQueue ==
    \/ LoadFile
    \/ SetPaused
    \/ SetMaxConnections
    \/ SetStopOnError
    \/ Remove
    \/ FileComplete
    \/ FileError

SpecQueue == InitQueue /\ [][NextQueue]_vars

NextClose ==
    \/ LoadFile
    \/ SetPaused
    \/ Close
    \/ RemoveAll
    \/ FileComplete
    \/ FileError

SpecClose == InitQueue /\ [][NextClose]_vars

(***************************************************************************)
(* Properties.                                                             *)
(***************************************************************************)
EvIdx(type) == { k \in DOMAIN evts : evts[k].t = type }
FrameEnded == evts # <<>> /\ evts[Len(evts)].t = "end"
CeilDiv(a, b) == (a + b - 1) \div b

\* C1: at each card append, cursor + 6 does not exceed the capacity of the
\* arrays written into: the default arrays of _maxBatchVertexCount vertices,
\* or the micro arrays while an immediate blend mode is selected.
C1_AppendWithinCapacity ==
    \A k \in EvIdx("append") :
        evts[k].cursor + INDICIES_PER_CARD <=
            (IF evts[k].cfg = "default" THEN stage.maxBatchVertexCount ELSE MicroGroupCount)

\* C2: a frame of N cards of one texture in the default blend mode with
\* N*6 > C is flushed ceil(N*6 / C) times, the flushed vertex counts sum to
\* N*6, and each flush draws exactly the cards appended since the previous one.
C2_FlushCountAndSum ==
    (Cardinality(frame.texs) <= 1 /\ ~ frame.blended) =>
        /\ \A k \in EvIdx("flush") :
              /\ Len(evts[k].cards) = Len(evts[k].pending)
              /\ \A j \in DOMAIN evts[k].cards :
                    /\ evts[k].cards[j].node = evts[k].pending[j].node
                    /\ evts[k].cards[j].draw = evts[k].pending[j].draw
        /\ (FrameEnded /\ frame.cards * INDICIES_PER_CARD > stage.maxBatchVertexCount) =>
              /\ frame.flushes =
                    CeilDiv(frame.cards * INDICIES_PER_CARD, stage.maxBatchVertexCount)
              /\ frame.verts = frame.cards * INDICIES_PER_CARD
              /\ SumSeq([j \in DOMAIN frame.flog |-> frame.flog[j].count]) = frame.verts

\* C2 witness: a frame of one texture that needed three flushes has ended
C2_Witness ==
    /\ FrameEnded
    /\ Cardinality(frame.texs) = 1 /\ ~ frame.blended
    /\ frame.cards * INDICIES_PER_CARD > 2 * stage.maxBatchVertexCount
    /\ frame.flushes = 3

\* C3: while a batch is open, the slot index recorded by every pending card
\* names a slot that holds that card's texture, up to and including the
\* flush; a texture other than the placeholder occupies at most one slot.
C3_PendingSlotsStable ==
    /\ \A k \in DOMAIN frame.pending :
          stage.batchTextures[frame.pending[k].idx + 1] = frame.pending[k].tex
    /\ \A k \in EvIdx("flush") : \A j \in DOMAIN evts[k].pending :
          evts[k].slots[evts[k].pending[j].idx + 1] = evts[k].pending[j].tex
    /\ \A i, j \in 1..stage.batchTextureCount :
          (i # j /\ stage.batchTextures[i] = stage.batchTextures[j]) =>
              stage.batchTextures[i] = stage.baseTextures[i]

\* C3 witness: a forced flush drew two pending cards of different textures
\* and the texture that forced it now has a pending card of its own
C3_Witness ==
    /\ \E k \in EvIdx("flush") :
          /\ evts[k].reason = "textureOverflow"
          /\ Len(evts[k].pending) >= 2
          /\ evts[k].pending[1].tex # evts[k].pending[2].tex
    /\ Len(frame.pending) = 1

\* C4: the search for a slot starts at (last inserted + 1) mod slot count
\* and proceeds round-robin; the first slot whose occupant's batch id is not
\* the current one and which is not blacklisted is taken; if there is none,
\* exactly one flush (textureOverflow) is forced and the start slot is
\* reused; afterwards the last-insert index is the chosen slot, in range.
C4_Qualifies(e, i) == e.occBatch[i + 1] # e.batch /\ ~ e.black[i + 1]
C4_Expected(e) ==
    LET S == Len(e.occBatch)
        start == (e.last + 1) % S
        steps == { d \in 0..(S - 1) : C4_Qualifies(e, (start + d) % S) }
    IN IF steps = {} THEN start
       ELSE (start + (CHOOSE d \in steps : \A d2 \in steps : d <= d2)) % S
C5_OneSlotOneTexture ==
    \A k \in EvIdx("flush") : \A a, b \in DOMAIN evts[k].cards :
        evts[k].cards[a].idx = evts[k].cards[b].idx =>
            evts[k].cards[a].tex = evts[k].cards[b].tex
C5_Consecutive(ops) ==
    \A i, j, k \in DOMAIN ops :
        (i < j /\ j < k /\ ops[i].tex = ops[k].tex) => ops[j].tex = ops[i].tex
C6_ModeRestored ==
    /\ \A k \in EvIdx("return") \cup EvIdx("end") : stage.renderMode = evts[k].entry
    /\ \A k \in EvIdx("visit") : \A a \in EvIdx("append") :
          evts[k].c.op = "none" => evts[a].mode = evts[k].base

\* C7: with children [A (source-over), B (multiply), C (source-over)] in one
\* container the frame has at least three flushes, and the cards of A and C
\* are never drawn with the multiply shader program or blend state.
C7_IsolatedMultiply ==
    /\ (/\ FrameEnded
        /\ frame.nodes = 3
        /\ Len(frame.ops) = 3
        /\ frame.ops[1].op = "none" /\ frame.ops[1].mode = "source-over"
        /\ frame.ops[2].op = "multiply"
        /\ frame.ops[3].op = "none" /\ frame.ops[3].mode = "source-over") =>
          frame.flushes >= 3
    /\ \A k \in EvIdx("flush") : \A j \in DOMAIN evts[k].cards :
          (/\ evts[k].cards[j].node # 0
           /\ evts[k].cards[j].draw = stage.drawID
           /\ evts[k].cards[j].mode = "source-over") =>
              evts[k].shader # "multiply" /\ evts[k].blend # "multiply"

\* C8: a node that is invisible, or whose accumulated alpha (its own times
\* that of all ancestors and the stage) is below 0.0035, appends no vertices
\* and causes no texture lookup, registration or slot insertion.
C8_FaintNodesSkipped ==
    \A k \in EvIdx("visit") :
        (\/ ~ evts[k].c.visible
         \/ MulAlpha(evts[k].c.alpha, evts[k].concatAlpha) < AlphaEpsilon) =>
            EvIdx("append") \cup EvIdx("lookup") \cup EvIdx("load") \cup EvIdx("insert") = {}

\* C9: in a traversal that does not ignore caches, a node met with an
\* active cache contributes exactly one card, drawn from its cache surface,
\* and the traversal does not descend into it: no descendant contributes a
\* card or a texture lookup.
C9_SurfaceTexture(img) ==
    IF IsSurface(img) THEN TextureOf(img)
    ELSE IF images[img].storeID = Undef THEN NoTexture
    ELSE stage.textureDictionary[images[img].storeID + 1]
C9_CachedNodeOneCard ==
    \A k \in EvIdx("visit") :
        LET v == evts[k]
        IN (/\ v.c.cache # 0
            /\ ~ frame.ignoreCache
            /\ v.c.visible /\ v.concatAlpha > AlphaEpsilon) =>
              /\ Cardinality(EvIdx("append")) = 1
              /\ \A a \in EvIdx("append") :
                    /\ evts[a].node = v.node
                    /\ evts[a].tex = C9_SurfaceTexture(v.c.cache)
              /\ \A l \in EvIdx("lookup") : evts[l].img = v.c.cache
              /\ \A d \in DOMAIN stack : stack[d].node # v.node

\* C9 witness: a cached container was drawn as one card from a render texture
C9_Witness ==
    \E k \in EvIdx("visit") :
        /\ evts[k].c.kind = "container"
        /\ IsSurface(evts[k].c.cache)
        /\ ~ frame.ignoreCache
        /\ Cardinality(EvIdx("append")) = 1

\* C10: purgeTextures(maxAge) destroys and unregisters every registered
\* texture whose last-drawn frame plus maxAge is at most the current frame,
\* and destroys no texture whose last-drawn frame plus maxAge is greater.
C10_Registered(e) == { e.dict[k] : k \in DOMAIN e.dict } \ {NoTexture}
C10_LastDrawn(e, t) ==
    LET own == IF e.before[t].drawID = Undef THEN {} ELSE {e.before[t].drawID}
        srcs == { e.imgs[i].drawID : i \in SeqRange(e.before[t].imageData) } \ {Undef}
        all == own \cup srcs
    IN IF all = {} THEN Undef ELSE CHOOSE d \in all : \A d2 \in all : d2 <= d
C10_Gone(t) == ~ textures[t].alive /\ t \notin SeqRange(stage.textureDictionary)
C11_Registered(dict) == { dict[k] : k \in DOMAIN dict } \ {NoTexture}
C11_LastDrawn(e, t) ==
    LET srcs == { e.imgs[i].drawID : i \in SeqRange(e.before[t].imageData) } \ {Undef}
    IN IF srcs = {} THEN Undef ELSE CHOOSE d \in srcs : \A d2 \in srcs : d2 <= d
C11_NoneAged(e) ==
    \A t \in C11_Registered(e.dict) :
        C11_LastDrawn(e, t) = Undef \/ C11_LastDrawn(e, t) + e.count > e.at
C11_Untouched(e) ==
    /\ stage.textureDictionary = e.dict
    /\ \A t \in DOMAIN textures : textures[t].alive = e.before[t].alive
C11_PurgeIdempotent ==
    \A k \in EvIdx("purge") :
        LET e == evts[k]
        IN /\ C11_NoneAged(e) => C11_Untouched(e)
           /\ (e.prior # Undef /\ e.count >= e.prior) => C11_Untouched(e)
           /\ Len(stage.textureDictionary) = Len(e.dict)
           /\ \A j \in DOMAIN e.dict :
                 stage.textureDictionary[j] \in {e.dict[j], NoTexture}

\* C11 witness: after an earlier purge of the frame had run and a texture
\* had been unregistered, a purge with a count at least as large found a
\* registered image texture and left everything as it was
C11_Witness ==
    \E k \in EvIdx("purge") :
        /\ evts[k].prior # Undef /\ evts[k].count >= evts[k].prior
        /\ evts[k].count >= 1
        /\ NoTexture \in SeqRange(evts[k].dict)
        /\ \E t \in C11_Registered(evts[k].dict) : evts[k].before[t].hasData
        /\ C11_Untouched(evts[k])

\* C12: the automatic purge of draw runs after the traversal and the last
\* flush of the frame: no card is pending, the cursor is 0, every append,
\* flush and cover of the frame precedes it; and it removes no texture that
\* a card of the current frame was drawn from.
C12_AutoPurgeBetweenFrames ==
    \A k \in EvIdx("purge") :
        (EvIdx("end") # {}) =>
            /\ evts[k].pending = <<>>
            /\ evts[k].cursor = 0
            /\ \A j \in EvIdx("append") \cup EvIdx("flush") \cup EvIdx("cover") : j < k
            /\ phase = "idle" /\ stack = <<>>
            /\ \A t \in frame.texs :
                  textures[t].alive /\ t \in SeqRange(stage.textureDictionary)

\* C12 witness: an automatic purge destroyed an aged texture at the end of
\* a frame in which a card of another texture was drawn
C12_Witness ==
    \E k \in EvIdx("purge") :
        /\ EvIdx("end") # {}
        /\ frame.texs # {}
        /\ \E t \in C11_Registered(evts[k].dict) :
              evts[k].before[t].alive /\ ~ textures[t].alive

\* C13: releaseTexture(source, TRUE) of a source attached to a texture
\* detaches that source only, destroys the texture if and only if no source
\* remains attached, and every other source of the texture keeps a
\* registration that resolves to the live texture.
C13_Texture(e) ==
    IF e.img = 0 \/ e.imgs[e.img].storeID = Undef THEN NoTexture
    ELSE e.dict[e.imgs[e.img].storeID + 1]
C13_SafeRelease ==
    \A k \in EvIdx("release") :
        LET e == evts[k]
            t == C13_Texture(e)
        IN (e.safe /\ t # NoTexture) =>
              LET others == SeqRange(e.before[t].imageData) \ {e.img}
              IN /\ e.img \in SeqRange(e.before[t].imageData)
                 /\ images[e.img].storeID = Undef
                 /\ e.img \notin SeqRange(textures[t].imageData)
                 /\ (~ textures[t].alive) <=> (others = {})
                 /\ \A j \in others :
                       /\ images[j].storeID = e.imgs[j].storeID
                       /\ stage.textureDictionary[images[j].storeID + 1] = t
                       /\ textures[t].alive
                       /\ j \in SeqRange(textures[t].imageData)
                 /\ \A u \in DOMAIN textures : u # t => textures[u] = e.before[u]
                 /\ \A j \in DOMAIN images :
                       j \notin SeqRange(e.before[t].imageData) => images[j] = e.imgs[j]

\* C13 witness: a safe release detached the first of two sources of one
\* texture and the texture lives on
C13_Witness ==
    \E k \in EvIdx("release") :
        /\ evts[k].safe
        /\ C13_Texture(evts[k]) # NoTexture
        /\ Len(evts[k].before[C13_Texture(evts[k])].imageData) = 2
        /\ evts[k].before[C13_Texture(evts[k])].imageData[1] = evts[k].img
        /\ textures[C13_Texture(evts[k])].alive

\* C14: one frame of a container holding three bitmaps of the same image
\* source, in the default blend mode and with room for 18 vertices,
\* registers exactly one texture, flushes the batch exactly once and
\* submits exactly 18 vertices.
C14_Scene ==
    /\ FrameEnded
    /\ frame.nodes = 4 /\ frame.cards = 3 /\ frame.inside = 3
    /\ ~ frame.blended
    /\ \A i \in ImageIds : images[i].drawID # Undef => SrcOf(i) = SrcOf(1)
    /\ stage.maxBatchVertexCount >= 3 * INDICIES_PER_CARD
C14_ThreeBitmapsOneFlush ==
    C14_Scene =>
        /\ Cardinality(stage.textureIDs) = 1
        /\ Cardinality({ t \in DOMAIN textures :
                            textures[t].alive /\ textures[t].hasData }) = 1
        /\ Cardinality(frame.texs) = 1
        /\ frame.flushes = 1
        /\ frame.verts = 3 * INDICIES_PER_CARD
        /\ Len(frame.flog) = 1 /\ frame.flog[1].count = 3 * INDICIES_PER_CARD

\* C14 witness: such a frame has ended, the bitmaps showing two Image
\* elements with the same src
C14_Witness ==
    /\ C14_Scene
    /\ images[1].drawID # Undef /\ images[2].drawID # Undef
    /\ frame.verts = 3 * INDICIES_PER_CARD

(***************************************************************************)
(* C15.  Every update() that returns moves cacheID on by exactly one (to 1 *)
(* from the 0 of a new cache or the undefined of a released one) and draws *)
(* the surface once; an update() that throws leaves cacheID alone.         *)
(* getCacheDataURL makes a new snapshot if and only if the cache is        *)
(* defined and cacheID differs from the id recorded at the previous        *)
(* snapshot; otherwise the stored snapshot is returned and nothing         *)
(* changes.  A canvas cache that has been updated returns the snapshot of  *)
(* its latest draw.                                                        *)
(***************************************************************************)
C15_Defined(mg) == mg.target # <<>> /\ mg.cacheCanvas # 0
RECURSIVE C16_Flat(_, _)
C16_Flat(filters, i) ==
    IF i > Len(filters) THEN <<>>
    ELSE SubSeq(FilterNames[i], 1, filters[i]) \o C16_Flat(filters, i + 1)
C16_AllNames == { FilterNames[i][j] : i \in 1..2, j \in 1..2 }
C16_Returned == evts # <<>> /\ evts[Len(evts)].t = "update" /\ ~ evts[Len(evts)].threw
C16_Filtered(from) ==
    LET F[k \in from..(Len(evts) + 1)] ==
            IF k > Len(evts) THEN <<>>
            ELSE IF evts[k].t = "cover" /\ evts[k].shader \in C16_AllNames
            THEN <<evts[k].shader>> \o F[k + 1]
            ELSE F[k + 1]
    IN F[from]
C16_FilterPasses ==
    C16_Returned =>
        \A c \in 1..Len(evts) :
            evts[c].t = "content" =>
                /\ \A k \in (c + 1)..(Len(evts) - 1) :
                      /\ evts[k].t = "cover" /\ evts[k].reason = "filterPass"
                      /\ evts[k].dst = evts[k - 1].out
                      /\ evts[k].out # evts[k].dst
                      /\ evts[k].out =
                            IF evts[c].controlled /\ k = Len(evts) - 1 THEN StageSelf
                            ELSE IF k = c + 1 THEN evts[c].concat
                            ELSE evts[k - 1].dst
                /\ C16_Filtered(c + 1) = C16_Flat(evts[c].filters, 1)
                /\ Len(C16_Filtered(c + 1)) = SumSeq(evts[c].filters)
                /\ Len(evts) - 1 - c \in {SumSeq(evts[c].filters),
                                          SumSeq(evts[c].filters) + 1}

\* C16 witness: a target with a two-link filter and a one-link filter, whose
\* content left the buffers misaligned: four passes, three of them filters
C16_Witness ==
    /\ C16_Returned
    /\ \E c \in 1..Len(evts) :
          /\ evts[c].t = "content"
          /\ evts[c].filters = <<2, 1>>
          /\ ~ evts[c].controlled
          /\ Len(evts) - 1 - c = 4

(***************************************************************************)
(* C17.  After an update of a WebGL cache has returned: on a stage that is *)
(* not cache controlled the manager's output buffer is the cache surface   *)
(* and is a render texture that exists, the one the last draw of the       *)
(* update was made into; on a cache-controlled stage the passes number one *)
(* more than the filters, and the last of them, and only it, draws the     *)
(* previous result onto the canvas.                                        *)
(***************************************************************************)
C17_Passes(c) == Len(evts) - 1 - c
C17_ResultInSurface ==
    (C16_Returned /\ manager.stageGL) =>
        \A c \in 1..Len(evts) :
            evts[c].t = "content" =>
                IF evts[c].controlled
                THEN /\ C17_Passes(c) = SumSeq(evts[c].filters) + 1
                     /\ evts[Len(evts) - 1].out = StageSelf
                     /\ evts[Len(evts) - 1].dst = evts[Len(evts) - 2].out
                     /\ \A k \in c..(Len(evts) - 2) : evts[k].out # StageSelf
                ELSE /\ manager.cacheCanvas = Surface(manager.bufferTextureOutput)
                     /\ evts[Len(evts) - 1].out = manager.bufferTextureOutput
                     /\ manager.bufferTextureOutput \in 1..MaxTextures
                     /\ textures[manager.bufferTextureOutput].alive
                     /\ textures[manager.bufferTextureOutput].frameBuffer

(***************************************************************************)
(* C18.  In every step: each flush draws once, a positive number of        *)
(* vertices, six for every card appended since the previous flush (or the  *)
(* start of the frame); right after it the cursor is 0 and the batch id    *)
(* one higher; the batch id grows by exactly one for every flush and every *)
(* cover draw of the step and not otherwise, so a flush that finds the     *)
(* batch empty changes nothing and the batch id never decreases.           *)
(***************************************************************************)
C18_Draws(es) == { k \in DOMAIN es : es[k].t \in {"flush", "cover"} }
C18_After(es, k) == { j \in DOMAIN es : j > k /\ es[j].t \in {"flush", "cover", "append"} }
C19_SubmissionOrder ==
    /\ \A k \in EvIdx("flush") :
          /\ Len(evts[k].cards) = Len(evts[k].pending)
          /\ \A j \in DOMAIN evts[k].cards :
                /\ evts[k].cards[j].node = evts[k].pending[j].node
                /\ evts[k].cards[j].draw = evts[k].pending[j].draw
                /\ evts[k].cards[j].tex = evts[k].pending[j].tex
          /\ \A i, j \in DOMAIN evts[k].pending :
                i < j => evts[k].pending[i].node < evts[k].pending[j].node
    /\ FrameEnded =>
          /\ frame.pending = <<>>
          /\ frame.verts = frame.cards * INDICIES_PER_CARD

(***************************************************************************)
(* C20.  When a source that has no texture yet is looked up while texture  *)
(* creation fails, the traversal goes on (no exception leaves the draw),   *)
(* a diagnostic is logged, and the source is registered with the blank     *)
(* base texture of slot 0.                                                 *)
(***************************************************************************)
C20_PlaceholderOnFailure ==
    \A k \in EvIdx("lookup") :
        (evts[k].fresh /\ stage.createFails) =>
            /\ phase = "draw"
            /\ \E j \in EvIdx("log") : j > k
            /\ images[evts[k].img].storeID # Undef
            /\ Dict([st |-> stage], images[evts[k].img].storeID) = stage.baseTextures[1]

\* C21: in the construction of a renderer, each failed compilation of the
\* batch shader at a sampler count n > 1 is followed by a compilation at
\* floor(n/2); the attempts end either with a success at a count >= 1, which
\* becomes the renderer's sampler count, or with a failure at count 1 that
\* leaves the constructor by exception.
C21_HalvingRetry ==
    \A k \in EvIdx("compile") :
        Let(evts[k], LAMBDA e :
            IF e.ok
            THEN /\ e.count >= 1
                 /\ stage.batchTextureCount = e.count
                 /\ phase = "idle"
                 /\ k + 1 \notin EvIdx("compile")
            ELSE IF e.count > 1
            THEN /\ k + 1 \in EvIdx("compile")
                 /\ evts[k + 1].count = e.count \div 2
            ELSE /\ e.count = 1
                 /\ phase = "ctorThrew"
                 /\ k + 1 \notin EvIdx("compile"))

C24_RangeChecked ==
    \A k \in EvIdx("protect") :
        Let(evts[k], LAMBDA e :
            e.slots # Undef =>
                IF e.id < 0 \/ e.id >= e.slots
                THEN e.threw /\ e.after = e.before
                ELSE /\ ~ e.threw
                     /\ DOMAIN e.after = DOMAIN e.before \cup {e.id}
                     /\ e.after[e.id] = e.lock
                     /\ \A j \in DOMAIN e.before \ {e.id} : e.after[j] = e.before[j])

\* C25: every draw and every cacheDraw on a renderer without a WebGL
\* context ends in an exception.
C25_UninitializedDrawThrows ==
    \A k \in EvIdx("draw") \cup EvIdx("cacheDraw") :
        evts[k].gl # "gl" => evts[k].threw

\* C22: a cache update that has to create a render texture while the host
\* creates no more textures returns without an exception.
C22_FailureContained ==
    (stage.createFails /\ stage.hostWH) =>
        \A k \in EvIdx("update") :
            (/\ evts[k].before.target # <<>>
             /\ evts[k].before.useGL # "none"
             /\ evts[k].before.bufferTextureOutput = NoTexture) => ~ evts[k].threw

\* C26: a draw of a source whose upload throws goes on: the traversal is
\* not abandoned and the node's card is appended, the texture of the source
\* stays in the dictionary, alive and without pixels, and at the end of the
\* frame every node visited has been given its card.
C26_UploadFailureContained ==
    /\ \A k \in EvIdx("visit") :
          phase = "draw" /\ \E a \in EvIdx("append") : a > k /\ evts[a].node = evts[k].node
    /\ \A k \in EvIdx("upload") :
          evts[k].caught =>
              /\ textures[evts[k].tex].alive
              /\ textures[evts[k].tex].pixels = 0
              /\ Dict(W0, images[evts[k].img].storeID) = evts[k].tex
    /\ FrameEnded => frame.cards = frame.nodes

\* C26 witness: the second node of a frame has been drawn, and the upload
\* of its source threw and was caught.
C26_Witness ==
    /\ phase = "draw"
    /\ frame.nodes = 2
    /\ frame.cards = 2
    /\ \E k \in EvIdx("upload") : evts[k].caught

\* the events of the step just taken that concern the Image element i
C27_Events(type, i) == { k \in DOMAIN evts' : evts'[k].t = type /\ evts'[k].img = i }
\* whether i is the first element registered with the texture of its src
C27_Head(i) ==
    /\ images'[i].storeID # Undef
    /\ Let(Dict([st |-> stage'], images'[i].storeID), LAMBDA t :
           t # NoTexture /\ textures'[t].imageData # <<>> /\ textures'[t].imageData[1] = i)
\* whether the texture of i had not been drawn yet in the current frame
C27_FirstInFrame(i) ==
    \/ images[i].storeID = Undef
    \/ Let(Dict(W0, images[i].storeID), LAMBDA t :
           t # NoTexture /\ textures[t].drawID # stage.drawID)
C27_Step(headOnly) ==
    /\ \A k \in DOMAIN evts' :
          (evts'[k].t = "visit" /\ (headOnly => C27_Head(evts'[k].c.src))) =>
              Let(evts'[k].c.src, LAMBDA i :
                  IF ~ images[i].ready
                  THEN /\ C27_Events("upload", i) = {}
                       /\ images'[i].invalid = "yes"
                       /\ C27_FirstInFrame(i) => C27_Events("poll", i) # {}
                  ELSE (C27_FirstInFrame(i) /\ images[i].invalid # "no") =>
                          /\ C27_Events("upload", i) # {}
                          /\ images'[i].invalid = "no")
    /\ \A k \in DOMAIN evts' :
          evts'[k].t = "upload" =>
              /\ evts'[k].flag = "yes"
              /\ images[evts'[k].img].ready
              /\ evts'[k].caught \/ textures'[evts'[k].tex].pixels = evts'[k].img

\* C27 (as amended): for an Image element that is the first one registered
\* with the texture of its src, each draw while it is not ready uploads
\* nothing and leaves its flag set, the first draw of each frame polls it,
\* the first draw of a frame in which it is ready and flagged uploads it
\* and clears the flag, and an upload happens only while the flag is set.
C27_PollUntilReady == [][C27_Step(TRUE)]_vars

\* C27 (as stated): the same for every Image element that is drawn.
C27_EverySource == [][C27_Step(FALSE)]_vars

\* C27 witness: a source registered in an earlier frame, and polled there
\* while it was not ready, has just been uploaded in a later frame.
C27_Witness ==
    /\ stage.drawID >= 2
    /\ EvIdx("load") = {}
    /\ \E k \in EvIdx("upload") : ~ evts[k].caught /\ evts[k].flag = "yes"

\* C28: the threshold of a constructed renderer is -1 or a number that is
\* at least 10, and it is 1200 when the option was not given.
C28_ThresholdRange ==
    phase # "new" =>
        /\ stage.autoPurge # Undef
        /\ stage.autoPurge = 0 - 1 \/ stage.autoPurge >= AutoPurgeFloor
        /\ stage.host.autoPurge = Undef => stage.autoPurge = 1200

(***************************************************************************)
(* C29: getRenderBufferTexture(width, height) returns a texture with an    *)
(* attached framebuffer whose recorded width and height equal the request  *)
(* and which is registered in the texture dictionary under its own id; on  *)
(* reuse, resizeTexture reallocates storage only when the requested        *)
(* dimensions differ from the recorded ones.                               *)
(***************************************************************************)
C29_RenderBufferContract ==
    \A k \in DOMAIN evts :
        /\ evts[k].t = "renderBuffer" =>
               /\ ~ evts[k].threw
               /\ (evts[k].made # NoTexture =>
                      /\ textures[evts[k].made].frameBuffer
                      /\ textures[evts[k].made].size = evts[k].size
                      /\ Dict(W0, textures[evts[k].made].storeID) = evts[k].made)
        /\ (evts[k].t = "resize" /\ evts[k].after # evts[k].before) =>
               evts[k].from # evts[k].to

(***************************************************************************)
(* C30: after updateViewport(w, h), every persistent role buffer (output,  *)
(* concat, temp) that exists has width and height equal to the viewport    *)
(* size, and between frames this remains true after any sequence of draws, *)
(* cache draws and further viewport resizes.                               *)
(***************************************************************************)
RoleBuffers ==
    {stage.bufferTextureOutput, stage.bufferTextureConcat, stage.bufferTextureTemp}
        \ {NoTexture, StageSelf}

C32_IgnoreCacheAtEveryDepth ==
    (phase = "draw" /\ frame.ignoreCache) =>
        \A k \in EvIdx("visit") : evts[k].useCache = 0

(***************************************************************************)
(* C36: whenever the active blend mode changes, or a card is rendered      *)
(* immediately, the cards pending at that moment are flushed from the same *)
(* attribute arrays they were written into and under the blend state that  *)
(* was active when they were appended: the active attribute configuration  *)
(* is never switched between the write of a card and the flush that draws  *)
(* it.                                                                     *)
(***************************************************************************)
C36_FlushedWhereWritten ==
    \A k \in EvIdx("flush") :
        evts[k].reason \in {"shaderSwap", "immediatePrep"} =>
            \A j \in DOMAIN evts[k].pending :
                /\ evts[k].pending[j].cfg = evts[k].cfg
                /\ evts[k].pending[j].blend = evts[k].blend

(***************************************************************************)
(* C37: the occupant of a texture slot that is marked protected in the     *)
(* slot blacklist is never replaced by a texture insertion, including on   *)
(* the overflow path where no evictable slot is found and the starting     *)
(* slot is reused after a forced flush.                                    *)
(***************************************************************************)
C37_ProtectedSlotKept ==
    \A k \in EvIdx("insert") : ~ evts[k].black[evts[k].found + 1]

(***************************************************************************)
(* C39: between operations, over any sequence of draws, purges and         *)
(* releases: every image source with a defined store id maps to a live     *)
(* (not destroyed) registered texture, every source key in the id table    *)
(* maps to a live texture, and no destroyed texture remains in the texture *)
(* dictionary or in any batch slot.                                        *)
(***************************************************************************)
C39_Live(id) == Dict(W0, id) # NoTexture /\ textures[Dict(W0, id)].alive

C40_SlotIndexInRange ==
    /\ \A k \in EvIdx("slots") : evts[k].upto <= evts[k].len
    /\ \A k \in EvIdx("insert") :
          evts[k].found >= 0 /\ evts[k].found < Len(evts[k].occBatch)
    /\ \A t \in DOMAIN textures :
          (textures[t].alive /\ textures[t].activeIndex # Undef) =>
              textures[t].activeIndex < Len(stage.batchTextures)

(***************************************************************************)
(* C31: for a full-image card the four emitted UV corners are exactly the  *)
(* four corners of the unit square under one fixed vertical-flip           *)
(* convention, and for a card with source rectangle (x, y, w, h) in an     *)
(* image of size (W, H) the corners are (x/W, y/H) through                 *)
(* ((x+w)/W, (y+h)/H) under the same convention; every UV source (full     *)
(* image, source rectangle, spritesheet frame including its fallback       *)
(* rectangle) uses that same convention, and each of the six vertices      *)
(* carries the UV corner that matches its position corner.  The convention *)
(* is the one of UV_RECT: a row y of the image has v = 1 - y/H.            *)
(***************************************************************************)
C31_Same(a, b) == a[1] * b[2] = b[1] * a[2]

C31_Expected(it, left, top) ==
    IF it.kind = "full" \/ it.W = 0
    THEN << IF left THEN <<0, 1>> ELSE <<1, 1>>, IF top THEN <<1, 1>> ELSE <<0, 1>> >>
    ELSE << IF left THEN <<it.rect[1], it.W>> ELSE <<it.rect[1] + it.rect[3], it.W>>,
            IF top THEN <<it.H - it.rect[2], it.H>>
            ELSE <<it.H - (it.rect[2] + it.rect[4]), it.H>> >>

C31_UVConvention ==
    \A k \in EvIdx("uv") : \A j \in 1..6 :
        LET e == evts[k]
            want == C31_Expected(e.item, e.pos[j][1] = 0, e.pos[j][2] = 0)
        IN /\ C31_Same(e.uv[j][1], want[1])
           /\ C31_Same(e.uv[j][2], want[2])


(***************************************************************************)
(* C33: in every interleaving of adding items, load completions, load      *)
(* errors, removals, pause/resume and setMaxConnections calls, the load    *)
(* queue never starts a load while the number of loads in flight is at or  *)
(* above the maximum connection count of that moment; this holds both for  *)
(* the loads the queue lists as current and for the loads that are really  *)
(* under way.                                                              *)
(***************************************************************************)
C33_StartsBelowLimit ==
    \A k \in EvIdx("start") :
        /\ evts[k].inFlight < evts[k].max
        /\ evts[k].live < evts[k].max

\* C33: a load is started next to one already in flight, and another item is
\* held back because the limit is reached
C33_Witness ==
    /\ \E k \in EvIdx("start") : evts[k].inFlight = 1 /\ evts[k].max = MaxConnections
    /\ ~ queue.paused
    /\ Len(queue.currentLoads) = queue.maxConnections
    /\ Len(queue.loadQueue) > 0


(***************************************************************************)
(* C34: items whose order is maintained (scripts while maintainScriptOrder *)
(* is true, and items with maintainOrder = true) have their completion     *)
(* dispatched in the order in which they were added, whatever order their  *)
(* loads finish in, and each such item is dispatched and counted as loaded *)
(* exactly once: no fileload of an ordered item follows the fileload of an *)
(* ordered item added after it, no ordered item is counted or dispatched   *)
(* twice, and an ordered item that loaded and was counted was dispatched.  *)
(***************************************************************************)
C34_OrderedOnce ==
    /\ \A k \in EvIdx("fileload") : evts[k].ordered => ~ evts[k].late
    /\ \A id \in 1..Len(queue.loaders) :
        Ordered(queue, id) =>
            /\ queue.loaders[id].counted <= 1
            /\ queue.loaders[id].dispatched <= 1
            /\ (queue.loaders[id].done = "loaded" /\ queue.loaders[id].counted = 1)
                   => queue.loaders[id].dispatched = 1


(***************************************************************************)
(* C38: the number of items counted as finished never exceeds the number   *)
(* of items added to the queue, and the complete event of the queue is     *)
(* dispatched only in states where every added item has finished (loaded   *)
(* or failed) and no item is pending or in flight.                         *)
(***************************************************************************)
C38_CompleteWhenAllFinished ==
    /\ queue.numItemsLoaded <= queue.numItems
    /\ \A k \in EvIdx("complete") :
        /\ evts[k].loaded <= evts[k].items
        /\ evts[k].finished
        /\ evts[k].pending = 0
        /\ evts[k].inFlight = 0


(***************************************************************************)
(* C35: after close() the queue holds no pending items, and no load of an  *)
(* item that was pending or in flight at the time of the call is ever      *)
(* started afterwards.                                                     *)
(***************************************************************************)
C35_CloseEmptiesQueue ==
    /\ (evts # <<>> /\ evts[1].t = "close") => queue.loadQueue = <<>>
    /\ \A k \in EvIdx("start") : ~ evts[k].closed

====
